---- MODULE Spec2Model ----
(***************************************************************************)
(* Verification model of VirtualC64's D64 file system device (FSDevice),   *)
(* of the Am29F040B flash ROM state machine (FlashRom) and of the emulator *)
(* thread of the C64 class (state model, thread lock, run loop).           *)
(*                                                                         *)
(* A block's 256 data bytes are kept as a sparse map: an offset that is    *)
(* absent holds 0, and a 0 is never stored, so that two equal byte arrays  *)
(* have one representation.                                                *)
(***************************************************************************)
EXTENDS Integers, Sequences, FiniteSets, TLC

VARIABLES
    blocks,     \* FSDevice::blocks      block number -> data bytes
    lastOp,     \* the last FSDevice call: its name, arguments and results
    dst,        \* the caller's export buffer  [size, bytes]
    imported,   \* the buffer the volume was last imported from, while unchanged
    trail,      \* the FSDevice calls made so far: name and block addressed
    ops,        \* number of FSDevice calls made so far
    corrupted,  \* FSBlock::corrupted of the blocks where it is not 0, set by check
    state,      \* FlashRom::state
    baseState,  \* FlashRom::baseState
    rom,        \* FlashRom::rom         address -> byte
    lastPoke,   \* the last FlashRom writes: address, value, state before each
    preRom,     \* the ROM bytes before the last FlashRom write
    pokes,      \* number of FlashRom writes made so far
    emuState,   \* HardwareComponent::state of the C64
    ready,      \* C64::isReady(): the Roms are installed
    suspendCounter, \* C64::suspendCounter
    runLoopCtrl,    \* C64::runLoopCtrl       the set of flags that are set
    stopFlag,   \* C64::stopFlag
    p,          \* C64::p                 TRUE while the emulator thread exists
    threadLock, \* C64::threadLock        "free", or who holds it
    call,       \* the call that holds C64::stateChangeLock, or NoCall
    rasterLine, \* C64::rasterLine
    rasterCycle,    \* C64::rasterCycle
    pc,         \* where the emulator thread is in C64::runLoop
    lastCall,   \* the last completed call: name, state before and after, delegates
    nest,       \* the suspend() / resume() calls of the block in progress
    boundary,   \* the flags found and serviced by the run loop's current examination
    lastBoundary,   \* the same, of the last examination that ended
    wanted,     \* the flags whose last setControlFlags was not followed by a clear
    lastExit,   \* cause and place of the last exit of the run loop
    clock,      \* the master clock: the cycles executed since power up
    frame,      \* C64::frame
    lastAuto,   \* the frame at which the last auto-snapshot was scheduled
    autoSnapshotInterval,   \* C64::autoSnapshotInterval
    takeAutoSnapshots,      \* C64::takeAutoSnapshots
    autoSnapshots,  \* C64::autoSnapshots   position 0 first
    userSnapshots,  \* C64::userSnapshots   position 0 first
    snapCalls,  \* the snapshots taken into each storage and the snapshots deleted, so far
    config,     \* the current configuration: option -> value
    frequency,  \* C64::frequency
    durationOfOneCycle,     \* C64::durationOfOneCycle
    warpMode,   \* C64::warpMode
    ultimax,    \* C64::ultimax
    buffer,     \* the caller's snapshot buffer: the bytes of the last _save
    lastCore,   \* the last snapshot, configuration, serialization or AnyFile call
    anyFile,    \* an AnyFile object: data and size
    freshFile,  \* a second AnyFile object, new until readFromBuffer fills it
    callerBuf   \* the buffer handed to writeToBuffer and readFromBuffer

vars == <<blocks, lastOp, dst, imported, trail, ops, corrupted, state, baseState, rom, lastPoke, preRom, pokes,
          emuState, ready, suspendCounter, runLoopCtrl, stopFlag, p, threadLock, call,
          rasterLine, rasterCycle, pc, lastCall, nest, boundary, lastBoundary, wanted, lastExit,
          clock, frame, lastAuto, autoSnapshotInterval, takeAutoSnapshots, autoSnapshots,
          userSnapshots, snapCalls, config, frequency, durationOfOneCycle, warpMode, ultimax, buffer,
          lastCore, anyFile, freshFile, callerBuf>>

fsVars == <<blocks, lastOp, dst, imported, trail, ops, corrupted>>

flashVars == <<state, baseState, rom, lastPoke, preRom, pokes>>

emuVars == <<emuState, ready, suspendCounter, runLoopCtrl, stopFlag, p, threadLock, call,
             rasterLine, rasterCycle, pc, lastCall, nest, boundary, lastBoundary, wanted, lastExit>>

\* the counters
clockVars == <<clock, frame>>

\* the snapshot storages and the auto-snapshot settings
snapVars == <<lastAuto, autoSnapshotInterval, takeAutoSnapshots, autoSnapshots, userSnapshots, snapCalls>>

\* the configuration, the other snapshot items of the C64 and the snapshot buffer
itemVars == <<config, frequency, durationOfOneCycle, warpMode, ultimax, buffer, lastCore>>

\* the AnyFile objects and the caller's buffer
fileVars == <<anyFile, freshFile, callerBuf>>

\* the emulator thread's variables
threadVars == <<runLoopCtrl, stopFlag, p, threadLock, rasterLine, rasterCycle, pc,
                boundary, lastBoundary, wanted, lastExit>>

-----------------------------------------------------------------------------
(* The emulator before its first call *)

\* EmulatorState
EMULATOR_STATE_OFF == "EMULATOR_STATE_OFF"

EMULATOR_STATE_PAUSED == "EMULATOR_STATE_PAUSED"

EMULATOR_STATE_RUNNING == "EMULATOR_STATE_RUNNING"

\* no call holds stateChangeLock
NoCall == [op |-> "none", from |-> "none", ready |-> FALSE, phase |-> "none", log |-> <<>>]

\* no call was completed yet
NoLastCall == [op |-> "none", from |-> "none", ready |-> FALSE, to |-> "none", log |-> <<>>]

\* no suspend() / resume() block is in progress
NoNest == [depth |-> 0, before |-> "none", pure |-> TRUE, ended |-> FALSE]

\* the run loop is not examining runLoopCtrl
NoBoundary == [found |-> {}, serviced |-> <<>>, atEnd |-> FALSE, next |-> 1]

\* the run loop was not left yet
NoExit == [cause |-> "none", line |-> 0, cycle |-> 1]

\* the value of a counter (clock, frame, the snapshots taken) that a
\* specification leaves out: the counter stays as it is and nothing is
\* derived from it
NotFollowed == 0 - 1

\* the snapshot calls are left out
NoSnapCalls == [auto |-> NotFollowed, user |-> NotFollowed, deleted |-> 0]

\* long autoSnapshotInterval = 3
DefaultInterval == 3

\* the clock frequencies of the PAL and the NTSC models
PAL_CLOCK_FREQUENCY == 985249

NTSC_CLOCK_FREQUENCY == 1022727

\* the duration of a CPU cycle in 1/10 nano seconds: 10^10 / f, computed in
\* 32 bits
Duration(f) == (1000000000 \div f) * 10 + ((1000000000 % f) * 10) \div f

\* the configuration of a new C64
DefaultConfig == [VIC_MODEL |-> "PAL_6569", GLUE_LOGIC |-> "DISCRETE", SID_FILTER |-> "on"]

\* no snapshot, configuration or serialization call was made yet
NoCore == [op |-> "none", arg |-> <<>>, ret |-> 0, pre |-> <<>>]

\* an AnyFile object that holds no data: data is nullptr
NoFile == [data |-> <<>>, size |-> 0, null |-> TRUE]

-----------------------------------------------------------------------------
(* Bounds of the model *)

\* FSDevice calls per behaviour (after formatting)
MaxOps == 2

\* largest n handed to allocate
MaxAlloc == 2

\* longest file written by makeFile, in bytes
MaxLen == 509

\* a long file: 164 blocks of 254 bytes
LongLen == 41656

\* FlashRom writes per behaviour
MaxPokes == 9

-----------------------------------------------------------------------------
(* Bytes and sparse byte arrays *)

Pow2(n) == 2 ^ n

GET_BIT(x, nr) == (x \div Pow2(nr)) % 2 = 1

SET_BIT(x, nr) == IF GET_BIT(x, nr) THEN x ELSE x + Pow2(nr)

CLR_BIT(x, nr) == IF GET_BIT(x, nr) THEN x - Pow2(nr) ELSE x

\* bitwise AND of two bytes
RECURSIVE AndBits(_, _, _)
AndBits(x, y, n) ==
    IF n = 0 THEN 0
    ELSE 2 * AndBits(x \div 2, y \div 2, n - 1) + (IF x % 2 = 1 /\ y % 2 = 1 THEN 1 ELSE 0)

And8(x, y) == AndBits(x, y, 8)

RECURSIVE PopCount(_)
PopCount(x) == IF x = 0 THEN 0 ELSE (x % 2) + PopCount(x \div 2)

EmptyData == [o \in {} |-> 0]

\* data[o]
Get(d, o) == IF o \in DOMAIN d THEN d[o] ELSE 0

\* data[o] = v
Put(d, o, v) ==
    IF v = 0
    THEN [x \in (DOMAIN d) \ {o} |-> d[x]] @@ EmptyData
    ELSE (o :> v) @@ d

-----------------------------------------------------------------------------
(* FSDeviceDescriptor: the layout of a single-sided, single-density disk *)

BlockSize == 256

PayloadSize == 254

NumTracks == 35

NumSectors(t) ==
    IF t < 1 \/ t > NumTracks THEN 0
    ELSE IF t <= 17 THEN 21
    ELSE IF t <= 24 THEN 19
    ELSE IF t <= 30 THEN 18
    ELSE 17

RECURSIVE TrackOffset(_)
TrackOffset(t) == IF t <= 1 THEN 0 ELSE TrackOffset(t - 1) + NumSectors(t - 1)

TrackOffsets == [t \in 1..(NumTracks + 1) |-> TrackOffset(t)]

NumBlocks == TrackOffsets[NumTracks + 1]

IsTrackSectorPair(t, s) == t >= 1 /\ t <= NumTracks /\ s >= 0 /\ s < NumSectors(t)

IsValidRef(ref) == IsTrackSectorPair(ref[1], ref[2])

\* translateBlockNr(&b, t, s); NoBlock stands for a number blockPtr rejects
NoBlock == 0 - 1

TranslateBlockNr(t, s) == IF IsTrackSectorPair(t, s) THEN TrackOffsets[t] + s ELSE NoBlock

\* translateBlockNr(b, &t, &s)
TrackOfBlock(b) == CHOOSE t \in 1..NumTracks : TrackOffsets[t] <= b /\ b < TrackOffsets[t + 1]

RefOfBlock(b) == <<TrackOfBlock(b), b - TrackOffsets[TrackOfBlock(b)]>>

DirTrack == 18

DataInterleave == 10

DirInterleave == 3

\* the track that follows t once t is exhausted; 0 when there is none
NextTrack(t) ==
    IF t = DirTrack THEN 0
    ELSE IF t >= 2 /\ t <= 17 THEN t - 1
    ELSE IF t = 1 THEN 19
    ELSE IF t < NumTracks THEN t + 1
    ELSE 0

\* nextTrackAndSector(t, s, &nt, &ns): the out parameters keep their values
\* when there is no next block
NextTrackAndSector(t, s) ==
    LET il == IF t = DirTrack THEN DirInterleave ELSE DataInterleave
        ns == (s + il) % NumSectors(t)
    IN  IF ns # 0 THEN [ok |-> TRUE, t |-> t, s |-> ns]
        ELSE IF NextTrack(t) # 0 THEN [ok |-> TRUE, t |-> NextTrack(t), s |-> 0]
        ELSE [ok |-> FALSE, t |-> t, s |-> s]

NextBlockRef(ref) ==
    LET n == NextTrackAndSector(ref[1], ref[2])
    IN  IF n.ok THEN <<n.t, n.s>> ELSE <<0, 0>>

-----------------------------------------------------------------------------
(* FSDevice: block access *)

\* blockPtr(t, s): the block's number, NoBlock for nullptr
BlockPtr(t, s) ==
    LET b == TranslateBlockNr(t, s)
    IN  IF b >= 0 /\ b < NumBlocks THEN b ELSE NoBlock

\* bamPtr()
BamNr == BlockPtr(DirTrack, 0)

\* nextBlockPtr(ptr)
NextBlockPtr(blk, ptr) ==
    IF ptr = NoBlock THEN NoBlock ELSE BlockPtr(Get(blk[ptr], 0), Get(blk[ptr], 1))

\* locateAllocationBit(t, s, &byte, &bit)
AllocByte(t, s) == (4 * t) + 1 + (s \div 8)

AllocBit(t, s) == s % 8

\* isFree(ref)
IsFree(blk, ref) ==
    GET_BIT(Get(blk[BamNr], AllocByte(ref[1], ref[2])), AllocBit(ref[1], ref[2]))

\* a walk that has taken more steps than there are blocks never ends
Hang == <<0 - 1, 0 - 1>>

\* the loop of nextFreeBlock while it stays on track t: the free block found,
\* the first block of the track the walk leaves for, or no end
RECURSIVE SectorWalk(_, _, _, _)
SectorWalk(blk, t, s, fuel) ==
    IF IsFree(blk, <<t, s>>) THEN [kind |-> "found", ref |-> <<t, s>>]
    ELSE IF fuel = 0 THEN [kind |-> "hang", ref |-> Hang]
    ELSE LET nx == NextBlockRef(<<t, s>>)
         IN  IF nx[1] = t THEN SectorWalk(blk, t, nx[2], fuel - 1)
             ELSE [kind |-> "left", ref |-> nx]

\* while (ref.t && !isFree(ref)) ref = layout.nextBlockRef(ref)
RECURSIVE NextFreeWalk(_, _, _)
NextFreeWalk(blk, ref, fuel) ==
    IF ref[1] = 0 THEN ref
    ELSE LET w == SectorWalk(blk, ref[1], ref[2], NumSectors(ref[1]))
         IN  IF w.kind = "left" /\ fuel > 0 THEN NextFreeWalk(blk, w.ref, fuel - 1)
             ELSE IF w.kind = "found" THEN w.ref
             ELSE Hang

\* nextFreeBlock(ref)
NextFreeBlock(blk, ref) ==
    IF ~IsValidRef(ref) THEN <<0, 0>> ELSE NextFreeWalk(blk, ref, NumTracks)

\* mutant of setAllocationBit: the free-sector counter is left alone
SetAllocationBitNoCount(blk, t, s, value) ==
    LET byte == AllocByte(t, s)
        bit  == AllocBit(t, s)
        bam  == blk[BamNr]
        cur  == Get(bam, byte)
    IN  IF value /\ ~GET_BIT(cur, bit)
        THEN [blk EXCEPT ![BamNr] = Put(bam, byte, SET_BIT(cur, bit))]
        ELSE IF ~value /\ GET_BIT(cur, bit)
        THEN [blk EXCEPT ![BamNr] = Put(bam, byte, CLR_BIT(cur, bit))]
        ELSE blk

\* setAllocationBit(t, s, value)
SetAllocationBit(blk, t, s, value) ==
    LET byte == AllocByte(t, s)
        bit  == AllocBit(t, s)
        cnt  == byte - (byte % 4)
        bam  == blk[BamNr]
        cur  == Get(bam, byte)
    IN  IF value /\ ~GET_BIT(cur, bit)
        THEN LET b1 == Put(bam, byte, SET_BIT(cur, bit))
             IN  [blk EXCEPT ![BamNr] = Put(b1, cnt, (Get(b1, cnt) + 1) % 256)]
        ELSE IF ~value /\ GET_BIT(cur, bit)
        THEN LET b1 == Put(bam, byte, CLR_BIT(cur, bit))
             IN  [blk EXCEPT ![BamNr] = Put(b1, cnt, (Get(b1, cnt) + 255) % 256)]
        ELSE blk

\* markAsAllocated(t, s)
MarkAsAllocated(blk, t, s) == SetAllocationBit(blk, t, s, FALSE)

\* one pass of the loop of allocate: collect ref, mark it as allocated, link
\* it to the block nextTrackAndSector names, and go on from that block
AllocLink(blk, ref, nx, result) ==
    [blocks |-> [MarkAsAllocated(blk, ref[1], ref[2])
                    EXCEPT ![BlockPtr(ref[1], ref[2])] = Put(Put(@, 0, nx.t), 1, nx.s)],
     ref    |-> <<nx.t, nx.s>>,
     result |-> Append(result, ref)]

AllocStep(blk, ref, result) == AllocLink(blk, ref, NextTrackAndSector(ref[1], ref[2]), result)

\* the loop of allocate, k passes from the loop state a; the passes are taken
\* in two halves, one after the other, which keeps the evaluation shallow for
\* long files. The loop runs under if (ref.t), and nextTrackAndSector leaves
\* the reference in place when it fails, so the track never becomes 0.
RECURSIVE AllocLoopOn(_, _)
RECURSIVE AllocLoop(_, _)
AllocLoop(a, k) ==
    IF k = 0 THEN a
    ELSE IF k = 1 THEN AllocStep(a.blocks, a.ref, a.result)
    ELSE AllocLoopOn(AllocLoop(a, k \div 2), k - (k \div 2))

AllocLoopOn(a, k) == IF a.ref[1] = 0 THEN a ELSE AllocLoop(a, k)

\* the end of allocate: delete the block reference in the last block
AllocEnd(a, n) ==
    [blocks |-> [a.blocks EXCEPT ![BlockPtr(a.result[n][1], a.result[n][2])] =
                    Put(Put(@, 0, 0), 1, 0)],
     result |-> a.result, hang |-> FALSE]

\* allocate, once nextFreeBlock has returned first
AllocateFrom(blk, first, n) ==
    IF first = Hang THEN [blocks |-> blk, result |-> <<>>, hang |-> TRUE]
    ELSE IF first[1] = 0 THEN [blocks |-> blk, result |-> <<>>, hang |-> FALSE]
    ELSE AllocEnd(AllocLoop([blocks |-> blk, ref |-> first, result |-> <<>>], n), n)

\* allocate(ref, n); hang: the search for the first free block never ends
Allocate(blk, ref, n) == AllocateFrom(blk, NextFreeBlock(blk, ref), n)

\* writeByte when offset == 0x100: proceed to the next sector nx
WriteByteNext(blk, byte, t, s, nx) ==
    IF ~nx.ok
    THEN [blocks |-> blk, ret |-> FALSE, t |-> t, s |-> s, offset |-> 256]
    ELSE [blocks |-> [[MarkAsAllocated(blk, nx.t, nx.s)
                         EXCEPT ![BlockPtr(t, s)] = Put(Put(@, 0, nx.t), 1, nx.s)]
                         EXCEPT ![BlockPtr(nx.t, nx.s)] = Put(@, 2, byte)],
          ret |-> TRUE, t |-> nx.t, s |-> nx.s, offset |-> 3]

\* writeByte(byte, &t, &s, &offset)
WriteByte(blk, byte, t, s, offset) ==
    IF offset = 256
    THEN WriteByteNext(blk, byte, t, s, NextTrackAndSector(t, s))
    ELSE [blocks |-> [blk EXCEPT ![BlockPtr(t, s)] = Put(@, offset, byte)],
          ret |-> TRUE, t |-> t, s |-> s, offset |-> offset + 1]

-----------------------------------------------------------------------------
(* FSDirEntry and FSBlock *)

EntrySize == 32

EntriesPerBlock == 8

MaxFiles == 144

FileTypePRG == 130

NamePad == 160

NameLen == 16

\* FSDirEntry::isEmpty for entry k of a directory block; the first two bytes of
\* a sector's first entry hold the sector's link and are not part of the entry
EntryIsEmpty(d, k) ==
    \A o \in (EntrySize * k + 2)..(EntrySize * k + EntrySize - 1) : Get(d, o) = 0

\* FSDirEntry::init(name, ref, numBlocks)
EntryInit(d, k, name, ref, numBlocks) ==
    LET base == EntrySize * k
        new  == [o \in (base + 2)..(base + EntrySize - 1) |->
                    IF o = base + 2 THEN FileTypePRG
                    ELSE IF o = base + 3 THEN ref[1]
                    ELSE IF o = base + 4 THEN ref[2]
                    ELSE IF o >= base + 5 /\ o < base + 5 + NameLen
                         THEN (IF o - base - 4 <= Len(name) THEN name[o - base - 4] ELSE NamePad)
                    ELSE IF o = base + 30 THEN numBlocks % 256
                    ELSE IF o = base + 31 THEN (numBlocks \div 256) % 256
                    ELSE 0]
        keep == (DOMAIN d) \ (DOMAIN new)
        set  == {o \in DOMAIN new : new[o] # 0}
    IN  [o \in keep \cup set |-> IF o \in set THEN new[o] ELSE d[o]]

\* FSBlock::writeBAM: every sector of every track free, (18,1) linked as the
\* first directory sector
BamEntry(t, o) ==
    IF o = 0 THEN NumSectors(t)
    ELSE LET lo == 8 * (o - 1)
             n  == NumSectors(t) - lo
         IN  IF n >= 8 THEN 255 ELSE IF n <= 0 THEN 0 ELSE Pow2(n) - 1

DosVersion == 65

WriteBAM(d) ==
    LET new == [o \in 0..(4 * NumTracks + 3) |->
                   IF o = 0 THEN DirTrack
                   ELSE IF o = 1 THEN 1
                   ELSE IF o = 2 THEN DosVersion
                   ELSE IF o = 3 THEN 0
                   ELSE BamEntry(o \div 4, o % 4)]
    IN  [o \in {x \in DOMAIN new : new[x] # 0} |-> new[o]]

-----------------------------------------------------------------------------
(* FSDevice: files *)

NoSlot == <<NoBlock, 0>>

\* the state of the search loop before the pass for entry number i, which
\* lies in block ptr
SlotState(ptr, i, slot, done) == [ptr |-> ptr, i |-> i, slot |-> slot, done |-> done]

\* one pass of the search loop: for (i = 0; ptr && i < 144; i++), return the
\* entry if it is empty, go to the next sector after the sector's last entry
SlotStep(blk, a) ==
    IF a.ptr = NoBlock \/ a.i >= MaxFiles THEN SlotState(a.ptr, a.i, NoSlot, TRUE)
    ELSE IF EntryIsEmpty(blk[a.ptr], a.i % EntriesPerBlock)
    THEN SlotState(a.ptr, a.i, <<a.ptr, a.i % EntriesPerBlock>>, TRUE)
    ELSE SlotState(IF a.i % EntriesPerBlock = EntriesPerBlock - 1
                   THEN NextBlockPtr(blk, a.ptr) ELSE a.ptr,
                   a.i + 1, NoSlot, FALSE)

\* k passes of the search loop from the loop state a, taken in two halves,
\* one after the other
RECURSIVE SlotLoopOn(_, _, _)
RECURSIVE SlotLoop(_, _, _)
SlotLoop(blk, a, k) ==
    IF k = 0 THEN a
    ELSE IF k = 1 THEN SlotStep(blk, a)
    ELSE SlotLoopOn(blk, SlotLoop(blk, a, k \div 2), k - (k \div 2))

SlotLoopOn(blk, a, k) == IF a.done THEN a ELSE SlotLoop(blk, a, k)

\* the search loop of makeFile(name, buf, cnt) and nextFreeDirEntry
FindFreeSlot(blk, ptr, i) ==
    SlotLoop(blk, SlotState(ptr, i, NoSlot, FALSE), MaxFiles + 1).slot

\* the bytes buf[lo+1 .. hi] written to offsets 2.. of one block
WriteChunk(d, buf, lo, hi) ==
    LET offs == 2..(1 + hi - lo)
        set  == {o \in offs : buf[lo + o - 1] # 0}
    IN  [o \in ((DOMAIN d) \ offs) \cup set |->
            IF o \in set THEN buf[lo + o - 1] ELSE d[o]]

\* the write loop of makeFile for one block: the k-th 254 bytes of buf go to
\* the k-th block of the list
WriteBlock(blk, list, buf, cnt, k) ==
    [blk EXCEPT ![BlockPtr(list[k][1], list[k][2])] =
        WriteChunk(@, buf, PayloadSize * (k - 1),
                   IF PayloadSize * k < cnt THEN PayloadSize * k ELSE cnt)]

\* the write loop of makeFile for the blocks k1..k2 of the list, in order
RECURSIVE WriteRange(_, _, _, _, _, _)
WriteRange(blk, list, buf, cnt, k1, k2) ==
    IF k1 > k2 \/ BlockPtr(list[k1][1], list[k1][2]) \notin DOMAIN blk THEN blk
    ELSE IF k1 = k2 THEN WriteBlock(blk, list, buf, cnt, k1)
    ELSE WriteRange(WriteRange(blk, list, buf, cnt, k1, (k1 + k2) \div 2),
                    list, buf, cnt, ((k1 + k2) \div 2) + 1, k2)

\* the write loop of makeFile: byte i goes to offset 2 + i % 254 of block i / 254
WriteData(blk, list, buf, cnt) ==
    WriteRange(blk, list, buf, cnt, 1, (cnt + PayloadSize - 1) \div PayloadSize)

\* mutant of the block count: one block too many for a multiple of 254
BlocksNeededPlusOne(cnt) == (cnt \div 254) + 1

\* numBlocks = (cnt + 253) / 254
BlocksNeeded(cnt) == (cnt + 253) \div 254

\* the end of makeFile(name, dir, buf, cnt): write the directory entry
WriteEntry(blk, name, slot, list, numBlocks) ==
    [blocks |-> [blk EXCEPT ![slot[1]] = EntryInit(@, slot[2], name, list[1], numBlocks)],
     ret |-> TRUE, hang |-> FALSE, list |-> list, slot |-> slot]

\* makeFile(name, dir, buf, cnt), once allocate has returned a
MakeFileWith(a, name, slot, buf, cnt) ==
    IF a.hang THEN [blocks |-> a.blocks, ret |-> FALSE, hang |-> TRUE, list |-> <<>>, slot |-> NoSlot]
    ELSE IF a.result = <<>>
    THEN [blocks |-> a.blocks, ret |-> FALSE, hang |-> FALSE, list |-> <<>>, slot |-> NoSlot]
    ELSE WriteEntry(WriteData(a.blocks, a.result, buf, cnt), name, slot, a.result,
                    BlocksNeeded(cnt))

\* makeFile(name, dir, buf, cnt)
MakeFileAt(blk, name, slot, buf, cnt) ==
    MakeFileWith(Allocate(blk, <<1, 0>>, BlocksNeeded(cnt)), name, slot, buf, cnt)

\* makeFile(name, buf, cnt), once the search loop has ended at slot
MakeFileIn(blk, name, slot, buf, cnt) ==
    IF slot = NoSlot
    THEN [blocks |-> blk, ret |-> TRUE, hang |-> FALSE, list |-> <<>>, slot |-> NoSlot]
    ELSE MakeFileAt(blk, name, slot, buf, cnt)

\* makeFile(name, buf, cnt)
MakeFile(blk, name, buf, cnt) ==
    MakeFileIn(blk, name, FindFreeSlot(blk, BlockPtr(DirTrack, 1), 0), buf, cnt)

\* FSDirEntry::isHidden for entry k of a directory block: the file type, the
\* low three bits of the type byte, is DEL
EntryIsHidden(d, k) == Get(d, EntrySize * k + 2) % 8 = 0

\* the state of the loop of scanDirectory before the pass for entry number
\* i: the block the entry lies in and the entries collected, each as
\* <<block, number in the block>>
ScanState(ptr, i, result, done) == [ptr |-> ptr, i |-> i, result |-> result, done |-> done]

\* mutant of scanDirectory: an empty entry ends the walk only when it is the
\* first entry of a sector, other empty entries are passed over
ScanStepFirstOnly(blk, a, skipInvisible) ==
    IF a.ptr = NoBlock \/ a.i >= MaxFiles THEN ScanState(a.ptr, a.i, a.result, TRUE)
    ELSE IF EntryIsEmpty(blk[a.ptr], a.i % EntriesPerBlock) /\ a.i % EntriesPerBlock = 0
    THEN ScanState(a.ptr, a.i, a.result, TRUE)
    ELSE ScanState(IF a.i % EntriesPerBlock = EntriesPerBlock - 1
                   THEN NextBlockPtr(blk, a.ptr) ELSE a.ptr,
                   a.i + 1,
                   IF EntryIsEmpty(blk[a.ptr], a.i % EntriesPerBlock)
                      \/ (skipInvisible /\ EntryIsHidden(blk[a.ptr], a.i % EntriesPerBlock))
                   THEN a.result ELSE Append(a.result, <<a.ptr, a.i % EntriesPerBlock>>),
                   FALSE)

\* one pass of the loop of scanDirectory: for (i = 0; ptr && i < 144; i++),
\* break at an empty entry, collect the entry unless it is hidden and to be
\* skipped, go to the next sector after the sector's last entry
ScanStep(blk, a, skipInvisible) ==
    IF a.ptr = NoBlock \/ a.i >= MaxFiles THEN ScanState(a.ptr, a.i, a.result, TRUE)
    ELSE IF EntryIsEmpty(blk[a.ptr], a.i % EntriesPerBlock)
    THEN ScanState(a.ptr, a.i, a.result, TRUE)
    ELSE ScanState(IF a.i % EntriesPerBlock = EntriesPerBlock - 1
                   THEN NextBlockPtr(blk, a.ptr) ELSE a.ptr,
                   a.i + 1,
                   IF skipInvisible /\ EntryIsHidden(blk[a.ptr], a.i % EntriesPerBlock)
                   THEN a.result ELSE Append(a.result, <<a.ptr, a.i % EntriesPerBlock>>),
                   FALSE)

\* k passes of the loop from the loop state a, taken in two halves, one after
\* the other; the loop is left once a pass has ended it
RECURSIVE ScanLoopOn(_, _, _, _)
RECURSIVE ScanLoop(_, _, _, _)
ScanLoop(blk, a, k, skipInvisible) ==
    IF k = 0 THEN a
    ELSE IF k = 1 THEN ScanStep(blk, a, skipInvisible)
    ELSE ScanLoopOn(blk, ScanLoop(blk, a, k \div 2, skipInvisible), k - (k \div 2),
                    skipInvisible)

ScanLoopOn(blk, a, k, skipInvisible) ==
    IF a.done THEN a ELSE ScanLoop(blk, a, k, skipInvisible)

\* scanDirectory(skipInvisible)
ScanDirectory(blk, skipInvisible) ==
    ScanLoop(blk, ScanState(BlockPtr(DirTrack, 1), 0, <<>>, FALSE), MaxFiles + 1,
             skipInvisible).result

-----------------------------------------------------------------------------
(* FSDevice: import and export *)

\* FSBlock::importBlock(src + i * 256)
ImportBlock(bytes, i) ==
    LET here == {k \in DOMAIN bytes : k >= BlockSize * i /\ k < BlockSize * (i + 1)}
    IN  [o \in {k - BlockSize * i : k \in here} |-> bytes[BlockSize * i + o]]

\* mutant of importVolume: the buffer size is not compared
ImportVolumeNoCheck(blk, src) ==
    [blocks |-> [i \in 0..(NumBlocks - 1) |-> ImportBlock(src.bytes, i)],
     ret |-> TRUE, err |-> "FS_OK"]

\* importVolume(src, size, &error)
ImportVolume(blk, src) ==
    IF NumBlocks * 256 # src.size
    THEN [blocks |-> blk, ret |-> FALSE, err |-> "FS_WRONG_CAPACITY"]
    ELSE [blocks |-> [i \in 0..(NumBlocks - 1) |-> ImportBlock(src.bytes, i)],
          ret |-> TRUE, err |-> "FS_OK"]

\* the export loop: FSBlock::exportBlock(dst + i * 256) for i < count
ExportLoop(blk, first, count) ==
    LET idx == UNION {{BlockSize * i + o : o \in DOMAIN blk[first + i]} : i \in 0..(count - 1)}
    IN  [k \in idx |-> blk[first + (k \div BlockSize)][k % BlockSize]]

\* exportBlocks(first, last, dst, size, &error)
ExportBlocks(blk, first, last, buf) ==
    LET count == last - first + 1
    IN  IF count * 256 # buf.size
        THEN [dst |-> buf, ret |-> FALSE, err |-> "FS_WRONG_CAPACITY"]
        ELSE [dst |-> [size |-> buf.size, bytes |-> ExportLoop(blk, first, count)],
              ret |-> TRUE, err |-> "FS_OK"]

\* mutant of exportVolume: the last block is left out
ExportVolumeShort(blk, buf) == ExportBlocks(blk, 0, NumBlocks - 2, buf)

\* exportVolume(dst, size, &error)
ExportVolume(blk, buf) == ExportBlocks(blk, 0, NumBlocks - 1, buf)

-----------------------------------------------------------------------------
(* FSDevice: the calls a host makes, with their arguments *)

VolumeSize == NumBlocks * BlockSize

NoBuffer == [size |-> 0, bytes |-> EmptyData]

\* block references handed to setAllocationBit and markAsAllocated
BitRefs == {<<1, 10>>, <<18, 0>>, <<35, 7>>}

MarkRefs == {<<1, 0>>, <<1, 10>>}

\* start references handed to allocate; (0,0) is no valid reference
StartRefs == {<<1, 0>>, <<18, 4>>, <<35, 7>>, <<0, 0>>}

\* (byte, t, s, offset) handed to writeByte
ByteArgs == {<<255, 18, 0, 4>>, <<65, 1, 0, 2>>, <<65, 1, 0, 256>>, <<65, 35, 7, 256>>}

FileNames == {<<72, 69, 76, 76, 79>>}

FileLens == {1, 254, 255, MaxLen, LongLen}

\* the bytes of a file of cnt bytes. A short file has a different value in
\* every byte of a block; a long file is zero but for the first and the last
\* byte of every 254 bytes and its last byte, each marked with its position.
DenseByte(i) == (37 * (i - 1)) % 256

SparseByte(i, cnt) ==
    IF (i - 1) % PayloadSize \in {0, PayloadSize - 1} \/ i = cnt
    THEN 1 + ((((i - 1) \div PayloadSize) + ((i - 1) % PayloadSize)) % 255)
    ELSE 0

FileData(cnt) ==
    [i \in 1..cnt |-> IF cnt <= MaxLen THEN DenseByte(i) ELSE SparseByte(i, cnt)]

\* the contents of a caller's buffer of the given size
SampleBytes(size) ==
    LET want == [k \in {0, 255, 256, BlockSize * BamNr + 4, VolumeSize - 1, VolumeSize} |->
                    IF k = 0 THEN 1 ELSE IF k = 255 THEN 2 ELSE IF k = 256 THEN 3
                    ELSE IF k = VolumeSize - 1 THEN 255 ELSE 77]
    IN  [k \in {x \in DOMAIN want : x < size} |-> want[k]]

SampleBuffer(size) == [size |-> size, bytes |-> SampleBytes(size)]

ImportSizes == {VolumeSize, VolumeSize - 1, VolumeSize + BlockSize}

ExportSizes == {VolumeSize, VolumeSize - BlockSize, BlockSize}

\* (first, last, size) handed to exportBlocks
BlockRanges == {<<0, 0, BlockSize>>, <<0, 1, BlockSize>>, <<BamNr, BamNr + 1, 2 * BlockSize>>}

\* the record of a call: ref is the block the caller addressed, if any
Call(op, ref, arg, ret, err, out) ==
    [op |-> op, ref |-> ref, arg |-> arg, ret |-> ret, err |-> err, out |-> out,
     pre |-> blocks]

\* FSDevice::FSDevice(capacity): capacity blocks of zero bytes; the FlashRom
\* is left alone
FSInit ==
    /\ blocks = [b \in 0..(NumBlocks - 1) |-> EmptyData]
    /\ lastOp = [op |-> "makeWithFormat", ref |-> <<>>, arg |-> <<>>, ret |-> TRUE, err |-> "FS_OK",
                 out |-> <<>>, pre |-> <<>>]
    /\ dst = NoBuffer
    /\ imported = NoBuffer
    /\ trail = <<>>
    /\ ops = 0
    /\ corrupted = EmptyData
    /\ state = "FLASH_READ"
    /\ baseState = "FLASH_READ"
    /\ rom = <<>>
    /\ lastPoke = <<>>
    /\ preRom = <<>>
    /\ pokes = 0
    /\ emuState = EMULATOR_STATE_OFF
    /\ ready = FALSE
    /\ suspendCounter = 0
    /\ runLoopCtrl = {}
    /\ stopFlag = FALSE
    /\ p = FALSE
    /\ threadLock = "free"
    /\ call = NoCall
    /\ rasterLine = 0
    /\ rasterCycle = 1
    /\ pc = "none"
    /\ lastCall = NoLastCall
    /\ nest = NoNest
    /\ boundary = NoBoundary
    /\ lastBoundary = NoBoundary
    /\ wanted = {}
    /\ lastExit = NoExit
    /\ clock = NotFollowed
    /\ frame = NotFollowed
    /\ lastAuto = 0
    /\ autoSnapshotInterval = DefaultInterval
    /\ takeAutoSnapshots = TRUE
    /\ autoSnapshots = <<>>
    /\ userSnapshots = <<>>
    /\ snapCalls = NoSnapCalls
    /\ config = DefaultConfig
    /\ frequency = PAL_CLOCK_FREQUENCY
    /\ durationOfOneCycle = Duration(PAL_CLOCK_FREQUENCY)
    /\ warpMode = FALSE
    /\ ultimax = FALSE
    /\ buffer = <<>>
    /\ lastCore = NoCore
    /\ anyFile = NoFile
    /\ freshFile = NoFile
    /\ callerBuf = <<>>

\* blockPtr(18,0)->writeBAM(name), the first step of filling a new device
Format ==
    /\ ops = 0
    /\ lastOp.op = "makeWithFormat"
    /\ blocks' = [blocks EXCEPT ![BamNr] = WriteBAM(@)]
    /\ lastOp' = Call("writeBAM", <<DirTrack, 0>>, <<>>, TRUE, "FS_OK", <<>>)
    /\ trail' = Append(trail, <<"writeBAM", <<DirTrack, 0>>>>)
    /\ UNCHANGED <<dst, imported, ops>>
    /\ UNCHANGED corrupted
    /\ UNCHANGED flashVars
    /\ UNCHANGED emuVars
    /\ UNCHANGED clockVars
    /\ UNCHANGED snapVars
    /\ UNCHANGED itemVars
    /\ UNCHANGED fileVars

DoSetAllocationBit ==
    /\ ops < MaxOps
    /\ \E ref \in BitRefs, value \in BOOLEAN :
          /\ blocks' = SetAllocationBit(blocks, ref[1], ref[2], value)
          /\ lastOp' = Call("setAllocationBit", ref, <<ref, value>>, TRUE, "FS_OK", <<>>)
    /\ imported' = NoBuffer
    /\ trail' = Append(trail, <<lastOp'.op, lastOp'.ref>>)
    /\ ops' = ops + 1
    /\ UNCHANGED dst
    /\ UNCHANGED corrupted
    /\ UNCHANGED flashVars
    /\ UNCHANGED emuVars
    /\ UNCHANGED clockVars
    /\ UNCHANGED snapVars
    /\ UNCHANGED itemVars
    /\ UNCHANGED fileVars

DoMarkAsAllocated ==
    /\ ops < MaxOps
    /\ \E ref \in MarkRefs :
          /\ blocks' = MarkAsAllocated(blocks, ref[1], ref[2])
          /\ lastOp' = Call("markAsAllocated", ref, <<ref>>, TRUE, "FS_OK", <<>>)
    /\ imported' = NoBuffer
    /\ trail' = Append(trail, <<lastOp'.op, lastOp'.ref>>)
    /\ ops' = ops + 1
    /\ UNCHANGED dst
    /\ UNCHANGED corrupted
    /\ UNCHANGED flashVars
    /\ UNCHANGED emuVars
    /\ UNCHANGED clockVars
    /\ UNCHANGED snapVars
    /\ UNCHANGED itemVars
    /\ UNCHANGED fileVars

Allocated(a, ref, n) ==
    /\ ~a.hang
    /\ blocks' = a.blocks
    /\ lastOp' = Call("allocate", ref, <<ref, n>>, TRUE, "FS_OK", a.result)

DoAllocate ==
    /\ ops < MaxOps
    /\ \E ref \in StartRefs, n \in 1..MaxAlloc : Allocated(Allocate(blocks, ref, n), ref, n)
    /\ imported' = NoBuffer
    /\ trail' = Append(trail, <<lastOp'.op, lastOp'.ref>>)
    /\ ops' = ops + 1
    /\ UNCHANGED dst
    /\ UNCHANGED corrupted
    /\ UNCHANGED flashVars
    /\ UNCHANGED emuVars
    /\ UNCHANGED clockVars
    /\ UNCHANGED snapVars
    /\ UNCHANGED itemVars
    /\ UNCHANGED fileVars

ByteWritten(w, x) ==
    /\ blocks' = w.blocks
    /\ lastOp' = Call("writeByte", <<x[2], x[3]>>, x, w.ret, "FS_OK", <<w.t, w.s, w.offset>>)

DoWriteByte ==
    /\ ops < MaxOps
    /\ \E x \in ByteArgs : ByteWritten(WriteByte(blocks, x[1], x[2], x[3], x[4]), x)
    /\ imported' = NoBuffer
    /\ trail' = Append(trail, <<lastOp'.op, lastOp'.ref>>)
    /\ ops' = ops + 1
    /\ UNCHANGED dst
    /\ UNCHANGED corrupted
    /\ UNCHANGED flashVars
    /\ UNCHANGED emuVars
    /\ UNCHANGED clockVars
    /\ UNCHANGED snapVars
    /\ UNCHANGED itemVars
    /\ UNCHANGED fileVars

FileMade(m, name, cnt) ==
    /\ ~m.hang
    /\ blocks' = m.blocks
    /\ lastOp' = Call("makeFile", <<>>, [name |-> name, cnt |-> cnt],
                      m.ret, "FS_OK", [list |-> m.list, slot |-> m.slot])

\* makeFile(name, buf, cnt) with a file of one of the lengths lens
MakeFileCall(lens) ==
    /\ ops < MaxOps
    /\ \E name \in FileNames, cnt \in lens :
          FileMade(MakeFile(blocks, name, FileData(cnt), cnt), name, cnt)
    /\ imported' = NoBuffer
    /\ trail' = Append(trail, <<lastOp'.op, lastOp'.ref>>)
    /\ ops' = ops + 1
    /\ UNCHANGED dst
    /\ UNCHANGED corrupted
    /\ UNCHANGED flashVars
    /\ UNCHANGED emuVars
    /\ UNCHANGED clockVars
    /\ UNCHANGED snapVars
    /\ UNCHANGED itemVars
    /\ UNCHANGED fileVars

DoMakeFile == MakeFileCall(FileLens)

Imported(r, src) ==
    /\ blocks' = r.blocks
    /\ lastOp' = Call("importVolume", <<>>, src, r.ret, r.err, <<>>)
    /\ imported' = IF r.ret THEN src ELSE imported

DoImportVolume ==
    /\ ops < MaxOps
    /\ \E src \in {SampleBuffer(size) : size \in ImportSizes} \cup {dst} :
          Imported(ImportVolume(blocks, src), src)
    /\ trail' = Append(trail, <<lastOp'.op, lastOp'.ref>>)
    /\ ops' = ops + 1
    /\ UNCHANGED dst
    /\ UNCHANGED corrupted
    /\ UNCHANGED flashVars
    /\ UNCHANGED emuVars
    /\ UNCHANGED clockVars
    /\ UNCHANGED snapVars
    /\ UNCHANGED itemVars
    /\ UNCHANGED fileVars

Exported(r, op, arg) ==
    /\ dst' = r.dst
    /\ lastOp' = Call(op, <<>>, arg, r.ret, r.err, <<>>)

DoExportVolume ==
    /\ ops < MaxOps
    /\ \E size \in ExportSizes :
          Exported(ExportVolume(blocks, SampleBuffer(size)), "exportVolume", SampleBuffer(size))
    /\ trail' = Append(trail, <<lastOp'.op, lastOp'.ref>>)
    /\ ops' = ops + 1
    /\ UNCHANGED <<blocks, imported>>
    /\ UNCHANGED corrupted
    /\ UNCHANGED flashVars
    /\ UNCHANGED emuVars
    /\ UNCHANGED clockVars
    /\ UNCHANGED snapVars
    /\ UNCHANGED itemVars
    /\ UNCHANGED fileVars

DoExportBlocks ==
    /\ ops < MaxOps
    /\ \E x \in BlockRanges :
          Exported(ExportBlocks(blocks, x[1], x[2], SampleBuffer(x[3])), "exportBlocks",
                   <<x[1], x[2], SampleBuffer(x[3])>>)
    /\ trail' = Append(trail, <<lastOp'.op, lastOp'.ref>>)
    /\ ops' = ops + 1
    /\ UNCHANGED <<blocks, imported>>
    /\ UNCHANGED corrupted
    /\ UNCHANGED flashVars
    /\ UNCHANGED emuVars
    /\ UNCHANGED clockVars
    /\ UNCHANGED snapVars
    /\ UNCHANGED itemVars
    /\ UNCHANGED fileVars

FSNext ==
    \/ Format
    \/ DoSetAllocationBit
    \/ DoMarkAsAllocated
    \/ DoAllocate
    \/ DoWriteByte
    \/ DoMakeFile
    \/ DoImportVolume
    \/ DoExportVolume
    \/ DoExportBlocks

SpecFS == FSInit /\ [][FSNext]_vars

-----------------------------------------------------------------------------
(* FSDevice: directories. The volumes are imported from D64 images whose    *)
(* directory holds entries, gaps, hidden entries and chains of sectors      *)

\* the blocks of a new device
ZeroBlocks == [b \in 0..(NumBlocks - 1) |-> EmptyData]

\* the second sector of the directory chain that FSDevice::setCapacity lays out
DirSector2 == <<DirTrack, 1 + DirInterleave>>

\* a directory block whose entries ks are in use; entry k is a file named
\* with the single letter 65 + k that starts at (1,k)
RECURSIVE DirEntries(_, _)
DirEntries(d, ks) ==
    IF ks = <<>> THEN d
    ELSE DirEntries(EntryInit(d, Head(ks), <<65 + Head(ks)>>, <<1, Head(ks)>>, 1), Tail(ks))

\* the same with the link to the next directory sector
DirBlock(ks, link) == Put(Put(DirEntries(EmptyData, ks), 0, link[1]), 1, link[2])

\* entry k of the block gets the file type DEL
Hidden(d, k) == Put(d, EntrySize * k + 2, 128)

AllEntries == <<0, 1, 2, 3, 4, 5, 6, 7>>

\* a formatted volume with the two directory sectors d1 at (18,1) and d2 at (18,4)
DirVolume(d1, d2) ==
    [ZeroBlocks EXCEPT ![BamNr] = WriteBAM(@),
                       ![BlockPtr(DirTrack, 1)] = d1,
                       ![BlockPtr(DirSector2[1], DirSector2[2])] = d2]

\* the directories of the sample images: empty; three files; a gap after
\* three files and one more file behind it; a full sector and two files in
\* the next one; a full sector whose link is (0,0); a full sector that links
\* to itself; three files, the second hidden; a full sector and a second
\* sector whose first entry is empty and whose next two are not; a full
\* sector whose link names no block of the disk
DirVolumes ==
    { DirVolume(EmptyData, EmptyData),
      DirVolume(DirBlock(<<0, 1, 2>>, <<0, 0>>), EmptyData),
      DirVolume(DirBlock(<<0, 1, 2, 4>>, <<0, 0>>), EmptyData),
      DirVolume(DirBlock(AllEntries, DirSector2), DirBlock(<<0, 1>>, <<0, 0>>)),
      DirVolume(DirBlock(AllEntries, <<0, 0>>), EmptyData),
      DirVolume(DirBlock(AllEntries, <<DirTrack, 1>>), EmptyData),
      DirVolume(Hidden(DirBlock(<<0, 1, 2>>, <<0, 0>>), 1), EmptyData),
      DirVolume(DirBlock(AllEntries, DirSector2), DirBlock(<<1, 2>>, <<0, 0>>)),
      DirVolume(DirBlock(AllEntries, <<NumTracks + 1, 0>>), DirBlock(<<0, 1>>, <<0, 0>>)) }

\* the D64 images of these volumes
DirImages == {[size |-> VolumeSize, bytes |-> ExportLoop(v, 0, NumBlocks)] : v \in DirVolumes}

\* makeWithD64: a new device has imported one of the images
DirInit ==
    /\ imported \in DirImages
    /\ blocks = ImportVolume(ZeroBlocks, imported).blocks
    /\ lastOp = [op |-> "importVolume", ref |-> <<>>, arg |-> imported, ret |-> TRUE,
                 err |-> "FS_OK", out |-> <<>>, pre |-> ZeroBlocks]
    /\ dst = NoBuffer
    /\ trail = << <<"importVolume", <<>>>> >>
    /\ ops = 0
    /\ corrupted = EmptyData
    /\ state = "FLASH_READ"
    /\ baseState = "FLASH_READ"
    /\ rom = <<>>
    /\ lastPoke = <<>>
    /\ preRom = <<>>
    /\ pokes = 0
    /\ emuState = EMULATOR_STATE_OFF
    /\ ready = FALSE
    /\ suspendCounter = 0
    /\ runLoopCtrl = {}
    /\ stopFlag = FALSE
    /\ p = FALSE
    /\ threadLock = "free"
    /\ call = NoCall
    /\ rasterLine = 0
    /\ rasterCycle = 1
    /\ pc = "none"
    /\ lastCall = NoLastCall
    /\ nest = NoNest
    /\ boundary = NoBoundary
    /\ lastBoundary = NoBoundary
    /\ wanted = {}
    /\ lastExit = NoExit
    /\ clock = NotFollowed
    /\ frame = NotFollowed
    /\ lastAuto = 0
    /\ autoSnapshotInterval = DefaultInterval
    /\ takeAutoSnapshots = TRUE
    /\ autoSnapshots = <<>>
    /\ userSnapshots = <<>>
    /\ snapCalls = NoSnapCalls
    /\ config = DefaultConfig
    /\ frequency = PAL_CLOCK_FREQUENCY
    /\ durationOfOneCycle = Duration(PAL_CLOCK_FREQUENCY)
    /\ warpMode = FALSE
    /\ ultimax = FALSE
    /\ buffer = <<>>
    /\ lastCore = NoCore
    /\ anyFile = NoFile
    /\ freshFile = NoFile
    /\ callerBuf = <<>>

DoScanDirectory ==
    /\ ops < MaxOps
    /\ \E skipInvisible \in BOOLEAN :
          lastOp' = Call("scanDirectory", <<>>, skipInvisible, TRUE, "FS_OK",
                         ScanDirectory(blocks, skipInvisible))
    /\ trail' = Append(trail, <<"scanDirectory", <<>>>>)
    /\ ops' = ops + 1
    /\ UNCHANGED <<blocks, dst, imported>>
    /\ UNCHANGED corrupted
    /\ UNCHANGED flashVars
    /\ UNCHANGED emuVars
    /\ UNCHANGED clockVars
    /\ UNCHANGED snapVars
    /\ UNCHANGED itemVars
    /\ UNCHANGED fileVars

\* the value of an FSError handed back where a bool is expected: every error
\* but FS_OK is a value other than zero
ErrorAsBool(e) == e # "FS_OK"

\* what a call of exportFile(item, path, error) can end in. Its body is
\* assert(false) and nothing else: the process is ended where the assertion is
\* compiled in, and where it is not the function ends without a return value
ExportFileOutcomes == {"abort", "true", "false"}

\* the numbers of items the target directory of exportDirectory may hold
HostItems == {0, 2}

\* the values *err may hold before a call
ErrBefore == {"FS_OK", "FS_UNKNOWN"}

\* exportDirectory(path, err) for a target directory of numItems items, with
\* *err = e before the call and exportFile ending as outcome
exportDirectory(blk, numItems, e, outcome) ==
    IF numItems # 0
    THEN [ret |-> ErrorAsBool("FS_DIRECTORY_NOT_EMPTY"), err |-> e, exported |-> 0,
          aborted |-> FALSE, items |-> <<>>]
    ELSE IF ScanDirectory(blk, TRUE) = <<>>
    THEN [ret |-> TRUE, err |-> "FS_OK", exported |-> 0, aborted |-> FALSE, items |-> <<>>]
    ELSE IF outcome = "abort"
    THEN [ret |-> FALSE, err |-> e, exported |-> 0, aborted |-> TRUE,
          items |-> ScanDirectory(blk, TRUE)]
    ELSE IF outcome = "false"
    THEN [ret |-> FALSE, err |-> e, exported |-> 0, aborted |-> FALSE,
          items |-> ScanDirectory(blk, TRUE)]
    ELSE [ret |-> TRUE, err |-> "FS_OK", exported |-> 0, aborted |-> FALSE,
          items |-> ScanDirectory(blk, TRUE)]

DoExportDirectory ==
    /\ ops < MaxOps
    /\ \E numItems \in HostItems, e \in ErrBefore, outcome \in ExportFileOutcomes :
          lastOp' = Call("exportDirectory", <<>>, [numItems |-> numItems, err |-> e],
                         exportDirectory(blocks, numItems, e, outcome).ret,
                         exportDirectory(blocks, numItems, e, outcome).err,
                         exportDirectory(blocks, numItems, e, outcome))
    /\ trail' = Append(trail, <<"exportDirectory", <<>>>>)
    /\ ops' = ops + 1
    /\ UNCHANGED <<blocks, dst, imported>>
    /\ UNCHANGED corrupted
    /\ UNCHANGED flashVars
    /\ UNCHANGED emuVars
    /\ UNCHANGED clockVars
    /\ UNCHANGED snapVars
    /\ UNCHANGED itemVars
    /\ UNCHANGED fileVars

\* the lengths of the files written to these volumes: a file of 1000 bytes
\* is one of them
DirFileLens == FileLens \cup {1000}

DirMakeFile == MakeFileCall(DirFileLens)

DirNext ==
    \/ DoScanDirectory
    \/ DirMakeFile
    \/ DoMarkAsAllocated
    \/ DoExportDirectory

SpecDir == DirInit /\ [][DirNext]_vars

-----------------------------------------------------------------------------
(* FSDevice: the next-block order, walked block by block on an empty        *)
(* formatted volume                                                         *)

\* the blocks outside the directory track
DataBlocks == NumBlocks - NumSectors(DirTrack)

\* the blocks a walk starts at: the first block of the order, and the first
\* block of a track of each zone
OrderStarts == {<<17, 0>>, <<1, 0>>, <<19, 0>>, <<25, 0>>, <<31, 0>>}

\* a new device after makeWithFormat
OrderInit ==
    /\ blocks = [ZeroBlocks EXCEPT ![BamNr] = WriteBAM(@)]
    /\ lastOp = [op |-> "writeBAM", ref |-> <<DirTrack, 0>>, arg |-> <<>>, ret |-> TRUE,
                 err |-> "FS_OK", out |-> <<>>, pre |-> ZeroBlocks]
    /\ dst = NoBuffer
    /\ imported = NoBuffer
    /\ trail = <<>>
    /\ ops = 0
    /\ corrupted = EmptyData
    /\ state = "FLASH_READ"
    /\ baseState = "FLASH_READ"
    /\ rom = <<>>
    /\ lastPoke = <<>>
    /\ preRom = <<>>
    /\ pokes = 0
    /\ emuState = EMULATOR_STATE_OFF
    /\ ready = FALSE
    /\ suspendCounter = 0
    /\ runLoopCtrl = {}
    /\ stopFlag = FALSE
    /\ p = FALSE
    /\ threadLock = "free"
    /\ call = NoCall
    /\ rasterLine = 0
    /\ rasterCycle = 1
    /\ pc = "none"
    /\ lastCall = NoLastCall
    /\ nest = NoNest
    /\ boundary = NoBoundary
    /\ lastBoundary = NoBoundary
    /\ wanted = {}
    /\ lastExit = NoExit
    /\ clock = NotFollowed
    /\ frame = NotFollowed
    /\ lastAuto = 0
    /\ autoSnapshotInterval = DefaultInterval
    /\ takeAutoSnapshots = TRUE
    /\ autoSnapshots = <<>>
    /\ userSnapshots = <<>>
    /\ snapCalls = NoSnapCalls
    /\ config = DefaultConfig
    /\ frequency = PAL_CLOCK_FREQUENCY
    /\ durationOfOneCycle = Duration(PAL_CLOCK_FREQUENCY)
    /\ warpMode = FALSE
    /\ ultimax = FALSE
    /\ buffer = <<>>
    /\ lastCore = NoCore
    /\ anyFile = NoFile
    /\ freshFile = NoFile
    /\ callerBuf = <<>>

\* nextFreeBlock(start): the first block of a walk
OrderStart ==
    /\ lastOp.op = "writeBAM"
    /\ \E start \in OrderStarts :
          /\ lastOp' = Call("nextFreeBlock", start, start, TRUE, "FS_OK",
                            NextFreeBlock(blocks, start))
          /\ trail' = << <<"nextFreeBlock", NextFreeBlock(blocks, start)>> >>
    /\ UNCHANGED <<blocks, dst, imported, ops>>
    /\ UNCHANGED corrupted
    /\ UNCHANGED flashVars
    /\ UNCHANGED emuVars
    /\ UNCHANGED clockVars
    /\ UNCHANGED snapVars
    /\ UNCHANGED itemVars
    /\ UNCHANGED fileVars

\* the walk has gone from block cur to block next
OrderStepped(cur, next) ==
    /\ lastOp' = Call("nextBlockRef", cur, cur, next[1] # 0, "FS_OK", next)
    /\ trail' = IF next[1] # 0 THEN Append(trail, <<"nextBlockRef", next>>) ELSE trail

\* ref = layout.nextBlockRef(ref), from the block the walk has reached
OrderStep ==
    /\ lastOp.op \in {"nextFreeBlock", "nextBlockRef"}
    /\ lastOp.out[1] # 0
    /\ OrderStepped(lastOp.out, NextBlockRef(lastOp.out))
    /\ UNCHANGED <<blocks, dst, imported, ops>>
    /\ UNCHANGED corrupted
    /\ UNCHANGED flashVars
    /\ UNCHANGED emuVars
    /\ UNCHANGED clockVars
    /\ UNCHANGED snapVars
    /\ UNCHANGED itemVars
    /\ UNCHANGED fileVars

\* allocate(start, 664) on the empty volume
OrderAllocate ==
    /\ lastOp.op = "writeBAM"
    /\ \E start \in OrderStarts : Allocated(Allocate(blocks, start, DataBlocks), start, DataBlocks)
    /\ trail' = Append(trail, <<lastOp'.op, lastOp'.ref>>)
    /\ UNCHANGED <<dst, imported, ops>>
    /\ UNCHANGED corrupted
    /\ UNCHANGED flashVars
    /\ UNCHANGED emuVars
    /\ UNCHANGED clockVars
    /\ UNCHANGED snapVars
    /\ UNCHANGED itemVars
    /\ UNCHANGED fileVars

OrderNext ==
    \/ OrderStart
    \/ OrderStep
    \/ OrderAllocate

SpecOrder == OrderInit /\ [][OrderNext]_vars

-----------------------------------------------------------------------------
(* FSDevice: check and isCorrupted. FSBlock::check is not part of the       *)
(* sources: which blocks it finds an error in is an input of check.         *)

\* the initial value of min in check: LONG_MAX, for a long of 32 bits
NoErrorBlock == 2147483647

\* the blocks FSBlock::check may find an error in
ErrorBlocks == {0, BamNr, NumBlocks - 1}

\* the blocks and the ordinals isCorrupted is asked about
QueryBlocks == ErrorBlocks \cup {1}

QueryOrdinals == 0..(Cardinality(ErrorBlocks) + 1)

\* the state of the loop of check: the counters and the corrupted fields
CheckState(total, min, max, corr) ==
    [total |-> total, min |-> min, max |-> max, corrupted |-> corr]

\* mutant of check: the corrupted field of an erroneous block is set to 1
CheckStepFlag(a, i, erroneous) ==
    IF erroneous
    THEN CheckState(a.total + 1, IF a.min < i THEN a.min ELSE i,
                    IF a.max > i THEN a.max ELSE i, Put(a.corrupted, i, 1))
    ELSE CheckState(a.total, a.min, a.max, Put(a.corrupted, i, 0))

\* one pass of the loop of check, for block i: if (blocks[i]->check(strict) > 0)
\* { min = MIN(min, i); max = MAX(max, i); corrupted = ++total; } else corrupted = 0
CheckStep(a, i, erroneous) ==
    IF erroneous
    THEN CheckState(a.total + 1, IF a.min < i THEN a.min ELSE i,
                    IF a.max > i THEN a.max ELSE i, Put(a.corrupted, i, a.total + 1))
    ELSE CheckState(a.total, a.min, a.max, Put(a.corrupted, i, 0))

\* the passes for the blocks lo..hi in ascending order, taken in two halves
RECURSIVE CheckLoop(_, _, _, _)
CheckLoop(a, lo, hi, errs) ==
    IF lo > hi \/ a.total < 0 THEN a
    ELSE IF lo = hi THEN CheckStep(a, lo, lo \in errs)
    ELSE CheckLoop(CheckLoop(a, lo, (lo + hi) \div 2, errs), ((lo + hi) \div 2) + 1, hi, errs)

\* the end of check: record the findings
CheckReport(a) ==
    [corrupted |-> a.corrupted,
     report |-> [corruptedBlocks |-> a.total, firstErrorBlock |-> a.min,
                 lastErrorBlock |-> a.max]]

\* check(strict), with errs the blocks whose own check finds an error
check(corr, errs) ==
    CheckReport(CheckLoop(CheckState(0, NoErrorBlock, 0, corr), 0, NumBlocks - 1, errs))

\* getCorrupted(blockNr)
getCorrupted(corr, blockNr) ==
    IF blockNr >= 0 /\ blockNr < NumBlocks THEN Get(corr, blockNr) ELSE 0

\* the state of the loop of isCorrupted(blockNr, n)
CountState(cnt, done, ret) == [cnt |-> cnt, done |-> done, ret |-> ret]

\* one pass of the loop of isCorrupted(blockNr, n), for block i
CountStep(corr, a, i, blockNr, n) ==
    IF getCorrupted(corr, i) = 0 THEN a
    ELSE IF blockNr = i THEN CountState(a.cnt + 1, TRUE, a.cnt + 1 = n)
    ELSE CountState(a.cnt + 1, FALSE, FALSE)

\* the passes for the blocks lo..hi; the loop is left once it has returned
RECURSIVE CountLoop(_, _, _, _, _, _)
CountLoop(corr, a, lo, hi, blockNr, n) ==
    IF lo > hi \/ a.done THEN a
    ELSE IF lo = hi THEN CountStep(corr, a, lo, blockNr, n)
    ELSE CountLoop(corr, CountLoop(corr, a, lo, (lo + hi) \div 2, blockNr, n),
                   ((lo + hi) \div 2) + 1, hi, blockNr, n)

\* isCorrupted(blockNr, n)
isCorrupted(corr, blockNr, n) ==
    CountLoop(corr, CountState(0, FALSE, FALSE), 0, NumBlocks - 1, blockNr, n).ret

\* a new device
CheckInit ==
    /\ blocks = [b \in 0..(NumBlocks - 1) |-> EmptyData]
    /\ lastOp = [op |-> "makeWithFormat", ref |-> <<>>, arg |-> <<>>, ret |-> TRUE, err |-> "FS_OK",
                 out |-> <<>>, pre |-> <<>>]
    /\ dst = NoBuffer
    /\ imported = NoBuffer
    /\ trail = <<>>
    /\ ops = 0
    /\ corrupted = EmptyData
    /\ state = "FLASH_READ"
    /\ baseState = "FLASH_READ"
    /\ rom = <<>>
    /\ lastPoke = <<>>
    /\ preRom = <<>>
    /\ pokes = 0
    /\ emuState = EMULATOR_STATE_OFF
    /\ ready = FALSE
    /\ suspendCounter = 0
    /\ runLoopCtrl = {}
    /\ stopFlag = FALSE
    /\ p = FALSE
    /\ threadLock = "free"
    /\ call = NoCall
    /\ rasterLine = 0
    /\ rasterCycle = 1
    /\ pc = "none"
    /\ lastCall = NoLastCall
    /\ nest = NoNest
    /\ boundary = NoBoundary
    /\ lastBoundary = NoBoundary
    /\ wanted = {}
    /\ lastExit = NoExit
    /\ clock = NotFollowed
    /\ frame = NotFollowed
    /\ lastAuto = 0
    /\ autoSnapshotInterval = DefaultInterval
    /\ takeAutoSnapshots = TRUE
    /\ autoSnapshots = <<>>
    /\ userSnapshots = <<>>
    /\ snapCalls = NoSnapCalls
    /\ config = DefaultConfig
    /\ frequency = PAL_CLOCK_FREQUENCY
    /\ durationOfOneCycle = Duration(PAL_CLOCK_FREQUENCY)
    /\ warpMode = FALSE
    /\ ultimax = FALSE
    /\ buffer = <<>>
    /\ lastCore = NoCore
    /\ anyFile = NoFile
    /\ freshFile = NoFile
    /\ callerBuf = <<>>

Checked(c, strict, errs) ==
    /\ corrupted' = c.corrupted
    /\ lastOp' = Call("check", <<>>, [strict |-> strict, errs |-> errs], TRUE, "FS_OK", c.report)

\* check(strict). The call leaves the volume as it is, and the run is not
\* bounded by the number of calls: the states repeat
DoCheck ==
    /\ \E strict \in BOOLEAN, errs \in SUBSET ErrorBlocks :
          Checked(check(corrupted, errs), strict, errs)
    /\ UNCHANGED <<blocks, dst, imported, trail, ops>>
    /\ UNCHANGED flashVars
    /\ UNCHANGED emuVars
    /\ UNCHANGED clockVars
    /\ UNCHANGED snapVars
    /\ UNCHANGED itemVars
    /\ UNCHANGED fileVars

\* isCorrupted(blockNr, n)
DoIsCorrupted ==
    /\ \E blockNr \in QueryBlocks, n \in QueryOrdinals :
          lastOp' = Call("isCorrupted", <<>>, [blockNr |-> blockNr, n |-> n],
                         isCorrupted(corrupted, blockNr, n), "FS_OK", <<>>)
    /\ UNCHANGED <<blocks, dst, imported, trail, ops, corrupted>>
    /\ UNCHANGED flashVars
    /\ UNCHANGED emuVars
    /\ UNCHANGED clockVars
    /\ UNCHANGED snapVars
    /\ UNCHANGED itemVars
    /\ UNCHANGED fileVars

CheckNext ==
    \/ DoCheck
    \/ DoIsCorrupted

SpecCheck == CheckInit /\ [][CheckNext]_vars

-----------------------------------------------------------------------------
(* Properties of the FSDevice, checked under SpecFS *)

\* the names of the calls made so far
Called(op) == \E i \in 1..Len(trail) : trail[i][1] = op

\* the free-sector count of every track equals the number of set bits in the
\* track's three bitmap bytes
BamConsistent(blk) ==
    \A t \in 1..NumTracks :
        Get(blk[BamNr], 4 * t) =
            PopCount(Get(blk[BamNr], 4 * t + 1)) + PopCount(Get(blk[BamNr], 4 * t + 2))
            + PopCount(Get(blk[BamNr], 4 * t + 3))

\* C1 as stated: after makeWithFormat and any sequence of setAllocationBit,
\* markAsAllocated, allocate, writeByte and makeFile calls, every track's BAM
\* free-sector count equals the popcount of its three bitmap bytes.
C1_BamCountAlways == ~Called("importVolume") => BamConsistent(blocks)

\* a writeByte call that addressed the BAM block (18,0)
WroteIntoBam == \E i \in 1..Len(trail) : trail[i] = <<"writeByte", <<DirTrack, 0>>>>

\* C1 amended: the count equals the popcount after any sequence of
\* setAllocationBit, markAsAllocated, allocate and makeFile calls and of
\* writeByte calls that do not address the BAM block (18,0).
C1_BamCount == (~Called("importVolume") /\ ~WroteIntoBam) => BamConsistent(blocks)

\* C1 witness: bits were changed by allocate on a formatted volume after a
\* writeByte that moved on to a new sector and marked it allocated
C1_Witness ==
    /\ Called("writeBAM")
    /\ Called("writeByte")
    /\ ~WroteIntoBam
    /\ lastOp.op = "allocate"
    /\ lastOp.out # <<>>
    /\ blocks[BamNr] # lastOp.pre[BamNr]

Count(seq, t) == Cardinality({i \in 1..Len(seq) : seq[i][1] = t})

\* C2: every block allocate returns was free before the call, none lies on
\* track 18, the returned references are pairwise distinct, and afterwards
\* each one's BAM bit is cleared and its track's free count is lower by one
\* per returned block.
C2_AllocateOnlyFree ==
    lastOp.op = "allocate" =>
        /\ \A i \in 1..Len(lastOp.out) : IsFree(lastOp.pre, lastOp.out[i])
        /\ \A i \in 1..Len(lastOp.out) : lastOp.out[i][1] # DirTrack
        /\ \A i, j \in 1..Len(lastOp.out) : i # j => lastOp.out[i] # lastOp.out[j]
        /\ \A i \in 1..Len(lastOp.out) : ~IsFree(blocks, lastOp.out[i])
        /\ \A t \in 1..NumTracks :
              Get(blocks[BamNr], 4 * t) = Get(lastOp.pre[BamNr], 4 * t) - Count(lastOp.out, t)

\* up to n blocks of the chain that starts at block ptr, and the block the
\* chain goes on with
RECURSIVE FollowOn(_, _, _)
RECURSIVE Follow(_, _, _)
Follow(blk, ptr, n) ==
    IF ptr = NoBlock \/ n = 0 THEN [chain |-> <<>>, next |-> ptr]
    ELSE IF n = 1 THEN [chain |-> <<ptr>>, next |-> NextBlockPtr(blk, ptr)]
    ELSE FollowOn(blk, Follow(blk, ptr, n \div 2), n - (n \div 2))

FollowRest(a, b) == [chain |-> a.chain \o b.chain, next |-> b.next]

FollowOn(blk, a, n) == FollowRest(a, Follow(blk, a.next, n))

\* the chain of blocks that starts at block ptr
ReadChain(blk, ptr, fuel) == Follow(blk, ptr, fuel).chain

\* bytes 2..255 of each block of a chain, concatenated
Payload(blk, chain) ==
    [i \in 1..(PayloadSize * Len(chain)) |->
        Get(blk[chain[((i - 1) \div PayloadSize) + 1]], 2 + ((i - 1) % PayloadSize))]

\* the first track/sector recorded in directory entry slot
EntryFirstBlock(blk, slot) ==
    BlockPtr(Get(blk[slot[1]], EntrySize * slot[2] + 3), Get(blk[slot[1]], EntrySize * slot[2] + 4))

\* the least k with 254 * k >= len
CeilBlocks(len) == CHOOSE k \in 0..len : PayloadSize * k >= len /\ PayloadSize * (k - 1) < len

\* the volume was formatted and has since only received files
OnlyFiles == \A i \in 1..Len(trail) : trail[i][1] \in {"writeBAM", "makeFile"}

FileReadsBack(blk, slot, buf, cnt) ==
    LET chain == ReadChain(blk, EntryFirstBlock(blk, slot), NumBlocks)
    IN  /\ Len(chain) = CeilBlocks(cnt)
        /\ SubSeq(Payload(blk, chain), 1, cnt) = buf
        /\ Get(blk[chain[Len(chain)]], 0) = 0
        /\ Get(blk[chain[Len(chain)]], 1) = 0

\* C3: a file of len bytes written with makeFile on a formatted volume reads
\* back exactly: the chain from the first track/sector of its directory entry
\* has ceil(len/254) blocks, ends with the link (0,0), and bytes 2..255 of its
\* blocks, concatenated, begin with the len bytes written.
C3_FileRoundTrip ==
    (lastOp.op = "makeFile" /\ Called("writeBAM") /\ OnlyFiles) =>
        /\ lastOp.ret
        /\ lastOp.out.slot # NoSlot
        /\ FileReadsBack(blocks, lastOp.out.slot, FileData(lastOp.arg.cnt), lastOp.arg.cnt)

\* C3 on a volume that holds no file yet: the first file written after the
\* format reads back exactly, whatever its length
C3_FirstFile == Len(trail) = 2 => C3_FileRoundTrip

\* C3 witness: a second file of 164 blocks has been written to a formatted
\* volume that already holds a file of 164 blocks
C3_Witness ==
    /\ lastOp.op = "makeFile"
    /\ Called("writeBAM")
    /\ OnlyFiles
    /\ Len(trail) = 3
    /\ lastOp.arg.cnt = LongLen
    /\ Len(lastOp.out.list) = CeilBlocks(LongLen)
    /\ lastOp.out.slot[2] = 1
    /\ ~IsFree(lastOp.pre, <<1, 0>>)
    /\ ~IsFree(lastOp.pre, <<27, 8>>)

\* C4: a buffer of numBlocks * 256 bytes that is imported and then exported
\* into a buffer of the same size comes back byte for byte, and the export
\* succeeds.
C4_ImportExport ==
    (lastOp.op = "exportVolume" /\ imported # NoBuffer /\ lastOp.arg.size = imported.size) =>
        /\ lastOp.ret
        /\ dst = imported

\* C4 witness: a buffer with bytes in the first, the second, the BAM and the
\* last block went through import and export
C4_Witness ==
    /\ lastOp.op = "exportVolume"
    /\ imported = SampleBuffer(VolumeSize)
    /\ lastOp.arg.size = imported.size
    /\ Cardinality(DOMAIN dst.bytes) = 5

\* C5: importVolume with a size other than numBlocks * 256 returns false,
\* reports FS_WRONG_CAPACITY and changes no block, and with that size returns
\* true and reports FS_OK; exportBlocks (and exportVolume) with a size other
\* than 256 times the number of blocks reports FS_WRONG_CAPACITY and leaves the
\* destination buffer as it was.
C5_WrongCapacity ==
    /\ lastOp.op = "importVolume" =>
          IF lastOp.arg.size # NumBlocks * 256
          THEN ~lastOp.ret /\ lastOp.err = "FS_WRONG_CAPACITY" /\ blocks = lastOp.pre
          ELSE lastOp.ret /\ lastOp.err = "FS_OK"
    /\ (lastOp.op = "exportBlocks" /\ lastOp.arg[3].size # 256 * (lastOp.arg[2] - lastOp.arg[1] + 1)) =>
          ~lastOp.ret /\ lastOp.err = "FS_WRONG_CAPACITY" /\ dst = lastOp.arg[3]
    /\ (lastOp.op = "exportVolume" /\ lastOp.arg.size # 256 * NumBlocks) =>
          ~lastOp.ret /\ lastOp.err = "FS_WRONG_CAPACITY" /\ dst = lastOp.arg

\* C5 witness: an import of the wrong size was refused on a volume that holds
\* a file
C5_Witness ==
    /\ lastOp.op = "importVolume"
    /\ lastOp.arg.size # NumBlocks * 256
    /\ Called("makeFile")
    /\ blocks[0] # EmptyData

-----------------------------------------------------------------------------
(* FlashRom: the Am29F040B state machine.  FlashRom.h declares the states,  *)
(* state, baseState, rom and the two command address tests; poke, peek and  *)
(* the flash operations follow section 4.7 of the specification.            *)

FlashRomState ==
    {"FLASH_READ", "FLASH_MAGIC_1", "FLASH_MAGIC_2", "FLASH_AUTOSELECT",
     "FLASH_BYTE_PROGRAM", "FLASH_BYTE_PROGRAM_ERROR", "FLASH_ERASE_MAGIC_1",
     "FLASH_ERASE_MAGIC_2", "FLASH_ERASE_SELECT", "FLASH_CHIP_ERASE",
     "FLASH_SECTOR_ERASE", "FLASH_SECTOR_ERASE_TIMEOUT", "FLASH_SECTOR_ERASE_SUSPEND"}

\* 0x7FF + 1
CommandMask == 2048

\* 0x555
FirstCommand == 1365

\* 0x2AA
SecondCommand == 682

\* mutant of firstCommandAddr: the address is compared in its low 12 bits
FirstCommandAddrLow12(addr) == (addr % (2 * CommandMask)) = FirstCommand

\* mutant of firstCommandAddr: the address of the second command is tested
FirstCommandAddrSwapped(addr) == (addr % CommandMask) = SecondCommand

\* firstCommandAddr(addr): (addr & 0x7FF) == 0x555
firstCommandAddr(addr) == (addr % CommandMask) = FirstCommand

\* mutant of secondCommandAddr: the address of the first command is tested
SecondCommandAddrSwapped(addr) == (addr % CommandMask) = FirstCommand

\* secondCommandAddr(addr): (addr & 0x7FF) == 0x2AA
secondCommandAddr(addr) == (addr % CommandMask) = SecondCommand

\* size of a sector in bytes (64 KB)
SectorSize == 65536

\* number of sectors in this Rom
NumFlashSectors == 8

\* the addresses of the 512 KB the model keeps a byte for: six in sector 0,
\* three in sector 1, one in the last sector
RomAddrs == {0, 1, 2, SecondCommand, FirstCommand, FirstCommand + CommandMask,
             SectorSize, SectorSize + SecondCommand, SectorSize + FirstCommand,
             (NumFlashSectors - 1) * SectorSize}

\* ROM contents as loaded: an erased chip, and a chip with data
RomImages ==
    {[a \in RomAddrs |-> 255],
     [a \in RomAddrs |-> IF a = 0 THEN 76 ELSE IF a = 1 THEN 164 ELSE (a % 251) + 3]}

\* the outcome of a write: the new state and ROM
Outcome(st, r) == [state |-> st, rom |-> r]

\* mutant of doByteProgram: the value is stored as it is
DoByteProgramStore(r, addr, value) == [r EXCEPT ![addr] = value]

\* doByteProgram(addr, value): rom[addr] &= value
doByteProgram(r, addr, value) == [r EXCEPT ![addr] = And8(@, value)]

\* doChipErase(): every byte becomes 0xFF
doChipErase(r) == [a \in DOMAIN r |-> 255]

\* mutant of doSectorErase: the bytes of every sector are erased
DoSectorEraseAll(r, addr) == [a \in DOMAIN r |-> 255]

\* doSectorErase(addr): every byte of the sector of addr becomes 0xFF
doSectorErase(r, addr) ==
    [a \in DOMAIN r |-> IF a \div SectorSize = addr \div SectorSize THEN 255 ELSE r[a]]

\* poke(addr, value) in a state of the erase command
PokeErase(st, base, r, addr, value) ==
    IF st = "FLASH_ERASE_MAGIC_1"
    THEN IF firstCommandAddr(addr) /\ value = 170
         THEN Outcome("FLASH_ERASE_MAGIC_2", r) ELSE Outcome(base, r)
    ELSE IF st = "FLASH_ERASE_MAGIC_2"
    THEN IF secondCommandAddr(addr) /\ value = 85
         THEN Outcome("FLASH_ERASE_SELECT", r) ELSE Outcome(base, r)
    ELSE IF st = "FLASH_ERASE_SELECT"
    THEN IF firstCommandAddr(addr) /\ value = 16
         THEN Outcome("FLASH_CHIP_ERASE", doChipErase(r))
         ELSE IF value = 48
         THEN Outcome("FLASH_SECTOR_ERASE", doSectorErase(r, addr))
         ELSE Outcome(base, r)
    ELSE Outcome(base, r)

\* mutant of poke in autoselect mode: the reset write is not taken
PokeAutoselectStay(st, r, value) == Outcome(st, r)

\* poke(addr, value) in autoselect mode: a write of 0xF0 leaves the mode
PokeAutoselect(st, r, value) ==
    IF value = 240 THEN Outcome("FLASH_READ", r) ELSE Outcome(st, r)

\* poke(addr, value): 0xAA = 170, 0x55 = 85, 0xA0 = 160, 0x80 = 128,
\* 0x90 = 144, 0xF0 = 240, 0x10 = 16, 0x30 = 48
Poke(st, base, r, addr, value) ==
    IF st = "FLASH_READ"
    THEN IF firstCommandAddr(addr) /\ value = 170
         THEN Outcome("FLASH_MAGIC_1", r) ELSE Outcome(st, r)
    ELSE IF st = "FLASH_MAGIC_1"
    THEN IF secondCommandAddr(addr) /\ value = 85
         THEN Outcome("FLASH_MAGIC_2", r) ELSE Outcome(base, r)
    ELSE IF st = "FLASH_MAGIC_2"
    THEN IF firstCommandAddr(addr) /\ value = 160 THEN Outcome("FLASH_BYTE_PROGRAM", r)
         ELSE IF firstCommandAddr(addr) /\ value = 128 THEN Outcome("FLASH_ERASE_MAGIC_1", r)
         ELSE IF firstCommandAddr(addr) /\ value = 144 THEN Outcome("FLASH_AUTOSELECT", r)
         ELSE IF firstCommandAddr(addr) /\ value = 240 THEN Outcome("FLASH_READ", r)
         ELSE Outcome(base, r)
    ELSE IF st = "FLASH_BYTE_PROGRAM"
    THEN Outcome("FLASH_READ", doByteProgram(r, addr, value))
    ELSE IF st = "FLASH_AUTOSELECT"
    THEN PokeAutoselect(st, r, value)
    ELSE PokeErase(st, base, r, addr, value)

\* mutant of peek: the ROM byte is returned in every state
PeekRom(st, r, addr) == r[addr]

\* peek(addr): the manufacturer and the device id in autoselect mode
Peek(st, r, addr) ==
    IF st = "FLASH_AUTOSELECT" /\ addr = 0 THEN 1
    ELSE IF st = "FLASH_AUTOSELECT" /\ addr = 1 THEN 164
    ELSE r[addr]

\* (addr, value) handed to poke: the command writes, the same at addresses
\* that differ above bit 10, and data
PokeArgs ==
    {<<FirstCommand, 170>>, <<SecondCommand, 85>>, <<FirstCommand, 160>>,
     <<FirstCommand, 128>>, <<FirstCommand, 144>>, <<FirstCommand, 240>>,
     <<FirstCommand, 16>>, <<SectorSize, 48>>, <<FirstCommand, 48>>,
     <<FirstCommand + CommandMask, 170>>, <<SectorSize + SecondCommand, 85>>,
     <<SecondCommand, 170>>, <<FirstCommand, 85>>, <<0, 15>>, <<2, 240>>}

\* the last three writes, the length of a command
Remember(w, e) == IF Len(w) < 3 THEN Append(w, e) ELSE Append(Tail(w), e)

FlashInit ==
    /\ state = "FLASH_READ"
    /\ baseState = "FLASH_READ"
    /\ rom \in RomImages
    /\ lastPoke = <<>>
    /\ preRom = rom
    /\ pokes = 0
    /\ blocks = <<>>
    /\ lastOp = <<>>
    /\ dst = NoBuffer
    /\ imported = NoBuffer
    /\ trail = <<>>
    /\ ops = 0
    /\ corrupted = EmptyData
    /\ emuState = EMULATOR_STATE_OFF
    /\ ready = FALSE
    /\ suspendCounter = 0
    /\ runLoopCtrl = {}
    /\ stopFlag = FALSE
    /\ p = FALSE
    /\ threadLock = "free"
    /\ call = NoCall
    /\ rasterLine = 0
    /\ rasterCycle = 1
    /\ pc = "none"
    /\ lastCall = NoLastCall
    /\ nest = NoNest
    /\ boundary = NoBoundary
    /\ lastBoundary = NoBoundary
    /\ wanted = {}
    /\ lastExit = NoExit
    /\ clock = NotFollowed
    /\ frame = NotFollowed
    /\ lastAuto = 0
    /\ autoSnapshotInterval = DefaultInterval
    /\ takeAutoSnapshots = TRUE
    /\ autoSnapshots = <<>>
    /\ userSnapshots = <<>>
    /\ snapCalls = NoSnapCalls
    /\ config = DefaultConfig
    /\ frequency = PAL_CLOCK_FREQUENCY
    /\ durationOfOneCycle = Duration(PAL_CLOCK_FREQUENCY)
    /\ warpMode = FALSE
    /\ ultimax = FALSE
    /\ buffer = <<>>
    /\ lastCore = NoCore
    /\ anyFile = NoFile
    /\ freshFile = NoFile
    /\ callerBuf = <<>>

Poked(o, x) ==
    /\ state' = o.state
    /\ rom' = o.rom
    /\ preRom' = rom
    /\ lastPoke' = Remember(lastPoke, [from |-> state, addr |-> x[1], val |-> x[2]])

DoPoke ==
    /\ pokes < MaxPokes
    /\ \E x \in PokeArgs : Poked(Poke(state, baseState, rom, x[1], x[2]), x)
    /\ pokes' = pokes + 1
    /\ UNCHANGED baseState
    /\ UNCHANGED fsVars
    /\ UNCHANGED emuVars
    /\ UNCHANGED clockVars
    /\ UNCHANGED snapVars
    /\ UNCHANGED itemVars
    /\ UNCHANGED fileVars

FlashNext == DoPoke

SpecFlash == FlashInit /\ [][FlashNext]_vars

-----------------------------------------------------------------------------
(* Properties of the FlashRom, checked under SpecFlash *)

\* the last write
LastPoke == lastPoke[Len(lastPoke)]

\* write e is poke(a, v)
IsPoke(e, a, v) == e.addr = a /\ e.val = v

\* the last three writes were poke(0x555,0xAA), poke(0x2AA,0x55), poke(0x555,x)
Command(x) ==
    /\ Len(lastPoke) = 3
    /\ IsPoke(lastPoke[1], 1365, 170)
    /\ IsPoke(lastPoke[2], 682, 85)
    /\ IsPoke(lastPoke[3], 1365, x)

\* C6: from READ, poke(0x555,0xAA), poke(0x2AA,0x55), poke(0x555,X) pass
\* through MAGIC_1 and MAGIC_2 and end in BYTE_PROGRAM for X = 0xA0, in
\* ERASE_MAGIC_1 for X = 0x80, in AUTOSELECT for X = 0x90 and in READ for
\* X = 0xF0.
C6_CommandSequence ==
    \A x \in {160, 128, 144, 240} :
        (Command(x) /\ lastPoke[1].from = "FLASH_READ") =>
            /\ lastPoke[2].from = "FLASH_MAGIC_1"
            /\ lastPoke[3].from = "FLASH_MAGIC_2"
            /\ state = (IF x = 160 THEN "FLASH_BYTE_PROGRAM"
                        ELSE IF x = 128 THEN "FLASH_ERASE_MAGIC_1"
                        ELSE IF x = 144 THEN "FLASH_AUTOSELECT" ELSE "FLASH_READ")

\* C6 witness: the erase prefix was written after a byte program command
\* had returned the chip to READ
C6_Witness ==
    /\ Command(128)
    /\ lastPoke[1].from = "FLASH_READ"
    /\ state = "FLASH_ERASE_MAGIC_1"
    /\ rom[0] = 12

\* a write that aborts leaves state = baseState and the ROM as it was
Aborted == state = baseState /\ rom = preRom

\* C7 as stated: in MAGIC_1 every write other than (0x2AA,0x55), and in
\* MAGIC_2 every write other than (0x555,0xA0), (0x555,0x80), (0x555,0x90),
\* (0x555,0xF0), sets state to baseState and changes no ROM byte; in READ a
\* write other than (0x555,0xAA) leaves the state READ and the ROM unchanged.
C7_AbortExactAddress ==
    Len(lastPoke) > 0 =>
        /\ (LastPoke.from = "FLASH_MAGIC_1" /\ ~IsPoke(LastPoke, 682, 85)) => Aborted
        /\ (LastPoke.from = "FLASH_MAGIC_2"
            /\ ~(LastPoke.addr = 1365 /\ LastPoke.val \in {160, 128, 144, 240})) => Aborted
        /\ (LastPoke.from = "FLASH_READ" /\ ~IsPoke(LastPoke, 1365, 170)) =>
              state = "FLASH_READ" /\ rom = preRom

\* C7 amended: the same, with the addresses compared in their low 11 bits:
\* a write aborts unless its value is the expected one and its address & 0x7FF
\* is 0x2AA (in MAGIC_1) or 0x555 (in MAGIC_2 and READ).
C7_Abort ==
    Len(lastPoke) > 0 =>
        /\ (LastPoke.from = "FLASH_MAGIC_1"
            /\ ~(LastPoke.addr % 2048 = 682 /\ LastPoke.val = 85)) => Aborted
        /\ (LastPoke.from = "FLASH_MAGIC_2"
            /\ ~(LastPoke.addr % 2048 = 1365 /\ LastPoke.val \in {160, 128, 144, 240})) => Aborted
        /\ (LastPoke.from = "FLASH_READ"
            /\ ~(LastPoke.addr % 2048 = 1365 /\ LastPoke.val = 170)) =>
              state = "FLASH_READ" /\ rom = preRom

\* C7 witness: a sequence was aborted in MAGIC_2 by a write of 0x55 to 0x555
\* on a chip that had been programmed before
C7_Witness ==
    /\ Len(lastPoke) = 3
    /\ LastPoke.from = "FLASH_MAGIC_2"
    /\ IsPoke(LastPoke, 1365, 85)
    /\ state = "FLASH_READ"
    /\ rom[0] = 12

C8_WitnessErase ==
    /\ Command(240)
    /\ lastPoke[1].from = "FLASH_ERASE_MAGIC_1"
    /\ lastPoke[3].from = "FLASH_ERASE_SELECT"

\* C9: after the autoselect command written from READ, peek(0) returns 0x01
\* and peek(1) returns 0xA4; after a following poke(X,0xF0), at any address
\* X, the state is READ and peek(0) returns the ROM byte at address 0.
C9_Autoselect ==
    /\ (Command(144) /\ lastPoke[1].from = "FLASH_READ") =>
          Peek(state, rom, 0) = 1 /\ Peek(state, rom, 1) = 164
    /\ (Len(lastPoke) > 0 /\ LastPoke.from = "FLASH_AUTOSELECT" /\ LastPoke.val = 240) =>
          /\ state = "FLASH_READ"
          /\ rom = preRom
          /\ Peek(state, rom, 0) = rom[0]

\* C9 witness: autoselect mode was left by poke(2,0xF0), following the
\* autoselect command, on a chip that holds 0x4C at address 0
C9_Witness ==
    /\ Len(lastPoke) = 3
    /\ IsPoke(lastPoke[1], 682, 85)
    /\ IsPoke(lastPoke[2], 1365, 144)
    /\ IsPoke(lastPoke[3], 2, 240)
    /\ lastPoke[3].from = "FLASH_AUTOSELECT"
    /\ Peek(state, rom, 0) = 76

\* C10: the write that follows the byte program command, at address a with
\* value v, leaves in rom[a] exactly the bits that were set both in the old
\* byte and in v, changes no other byte, and ends in READ.
C10_ByteProgram ==
    (Len(lastPoke) > 0 /\ LastPoke.from = "FLASH_BYTE_PROGRAM") =>
        /\ \A i \in 0..7 :
              GET_BIT(rom[LastPoke.addr], i) =
                  (GET_BIT(preRom[LastPoke.addr], i) /\ GET_BIT(LastPoke.val, i))
        /\ \A b \in RomAddrs \ {LastPoke.addr} : rom[b] = preRom[b]
        /\ state = "FLASH_READ"

\* C10 witness: 0x0F was programmed over 0x4C at address 0, which left 0x0C
C10_Witness ==
    /\ Len(lastPoke) = 3
    /\ IsPoke(lastPoke[2], 1365, 160)
    /\ LastPoke.from = "FLASH_BYTE_PROGRAM"
    /\ IsPoke(LastPoke, 0, 15)
    /\ preRom[0] = 76
    /\ rom[0] = 12

\* the sector an address lies in
SectorOf(a) == a \div SectorSize

\* the state is st only after the write (a, v), a compared in its low 11
\* bits, made in state from
EnteredBy(st, from, a, v) ==
    state = st =>
        /\ Len(lastPoke) > 0
        /\ LastPoke.from = from
        /\ LastPoke.addr % CommandMask = a
        /\ LastPoke.val = v

\* the effect of the two erase writes in ERASE_SELECT
EraseEffect ==
    (Len(lastPoke) > 0 /\ LastPoke.from = "FLASH_ERASE_SELECT") =>
        /\ LastPoke.val = 48 =>
              \A a \in RomAddrs :
                  rom[a] = IF SectorOf(a) = SectorOf(LastPoke.addr) THEN 255 ELSE preRom[a]
        /\ IsPoke(LastPoke, 1365, 16) => \A a \in RomAddrs : rom[a] = 255

\* C11 as stated: from ERASE_SELECT the write (sectorAddr,0x30) sets the
\* bytes of the sector of sectorAddr to 0xFF and leaves the other sectors
\* unchanged, the write (0x555,0x10) sets every byte to 0xFF, and
\* ERASE_SELECT is reached only through the writes (0x555,0xAA),
\* (0x2AA,0x55), (0x555,0x80), (0x555,0xAA), (0x2AA,0x55) at exactly these
\* addresses.
C11_EraseExactAddress ==
    /\ EraseEffect
    /\ state = "FLASH_ERASE_MAGIC_1" => Command(128)
    /\ state = "FLASH_ERASE_SELECT" =>
          /\ Len(lastPoke) = 3
          /\ IsPoke(lastPoke[1], 1365, 128)
          /\ IsPoke(lastPoke[2], 1365, 170)
          /\ IsPoke(lastPoke[3], 682, 85)

\* C11 amended: the same effects, and every state of the erase command is
\* entered only from the state before it in the command, by the write of the
\* command whose address is compared in its low 11 bits: MAGIC_1 by
\* (0x555,0xAA), MAGIC_2 by (0x2AA,0x55), ERASE_MAGIC_1 by (0x555,0x80),
\* ERASE_MAGIC_2 by (0x555,0xAA), ERASE_SELECT by (0x2AA,0x55).
C11_Erase ==
    /\ EraseEffect
    /\ EnteredBy("FLASH_MAGIC_1", LastPoke.from, FirstCommand, 170)
    /\ EnteredBy("FLASH_MAGIC_2", "FLASH_MAGIC_1", SecondCommand, 85)
    /\ EnteredBy("FLASH_ERASE_MAGIC_1", "FLASH_MAGIC_2", FirstCommand, 128)
    /\ EnteredBy("FLASH_ERASE_MAGIC_2", "FLASH_ERASE_MAGIC_1", FirstCommand, 170)
    /\ EnteredBy("FLASH_ERASE_SELECT", "FLASH_ERASE_MAGIC_2", SecondCommand, 85)

\* C11 witness: sector 1 of a chip with data was erased from ERASE_SELECT,
\* which had been reached through the erase command; sectors 0 and 7 kept
\* their bytes
C11_Witness ==
    /\ Len(lastPoke) = 3
    /\ lastPoke[1].from = "FLASH_ERASE_MAGIC_1"
    /\ lastPoke[2].from = "FLASH_ERASE_MAGIC_2"
    /\ LastPoke.from = "FLASH_ERASE_SELECT"
    /\ IsPoke(LastPoke, SectorSize, 48)
    /\ preRom[SectorSize + FirstCommand] # 255
    /\ rom[SectorSize + FirstCommand] = 255
    /\ rom[0] = 76
    /\ rom[(NumFlashSectors - 1) * SectorSize] # 255

\* C11, second witness: a chip with data was erased by poke(0x555,0x10)
C11_WitnessChip ==
    /\ Len(lastPoke) = 3
    /\ LastPoke.from = "FLASH_ERASE_SELECT"
    /\ IsPoke(LastPoke, 1365, 16)
    /\ preRom[0] = 76
    /\ rom[0] = 255

-----------------------------------------------------------------------------
(* HardwareComponent: the state model *)

\* rasterlines of a frame, in the model
LinesPerFrame == 2

\* cycles of a rasterline, in the model
CyclesPerLine == 2

\* deepest nesting of suspend() / resume() blocks
MaxSuspend == 2

\* cycles the master clock is followed for
MaxClock == 9

\* frames the frame counter is followed for
MaxFrames == 4

\* nested suspendAutoSnapshots() calls
MaxAutoSuspend == 2

\* snapshots taken per behaviour by takeSnapshot calls
MaxTaken == 34

\* deleteSnapshot calls per behaviour
MaxDeletes == 1

\* frames per second: the unit of autoSnapshotInterval, in frames
FramesPerSecond == 1

\* static const size_t MAX_SNAPSHOTS = 32
MAX_SNAPSHOTS == 32

\* a component: its state and the delegates invoked on it so far, each with
\* the state it was invoked in
Component(st, log) == [state |-> st, log |-> log]

\* the state is set to st and the delegate is invoked
Delegate(c, name, st) == Component(st, Append(c.log, <<name, st>>))

\* pause(): running -> paused, _pause()
pause(c) ==
    IF c.state = EMULATOR_STATE_RUNNING
    THEN Delegate(c, "_pause", EMULATOR_STATE_PAUSED) ELSE c

\* powerOn(): off -> paused, _powerOn()
powerOn(c) ==
    IF c.state = EMULATOR_STATE_OFF
    THEN Delegate(c, "_powerOn", EMULATOR_STATE_PAUSED) ELSE c

\* powerOff(): paused -> off, _powerOff(); running -> off, pause(), _powerOff()
powerOff(c) ==
    IF c.state # EMULATOR_STATE_OFF
    THEN Delegate(pause(c), "_powerOff", EMULATOR_STATE_OFF) ELSE c

\* mutant of run: a component that is off is not powered on first
RunWithoutPowerOn(c) ==
    IF c.state # EMULATOR_STATE_RUNNING
    THEN Delegate(c, "_run", EMULATOR_STATE_RUNNING) ELSE c

\* run(): paused -> running, _run(); off -> running, powerOn(), _run()
run(c) ==
    IF c.state # EMULATOR_STATE_RUNNING
    THEN Delegate(powerOn(c), "_run", EMULATOR_STATE_RUNNING) ELSE c

isPoweredOff(st) == st = EMULATOR_STATE_OFF

isPoweredOn(st) == st # EMULATOR_STATE_OFF

isPaused(st) == st = EMULATOR_STATE_PAUSED

isRunning(st) == st = EMULATOR_STATE_RUNNING

-----------------------------------------------------------------------------
(* C64: the calls that change the state *)

\* the calls that take stateChangeLock
ApiCalls == {"powerOn", "powerOff", "run", "pause", "suspend", "resume"}

\* isReady(&error): false with the error code of a missing Rom while the
\* Roms are not installed
isReady(r) == [ret |-> r, error |-> IF r THEN "ERR_OK" ELSE "ERR_ROM_MISSING"]

\* mutant of Proceeds: run() does not ask isReady()
ProceedsRunUnready(op) ==
    IF op = "powerOn" THEN ~isPoweredOn(emuState) /\ ready
    ELSE IF op = "powerOff" THEN ~isPoweredOff(emuState)
    ELSE IF op = "run" THEN ~isRunning(emuState)
    ELSE IF op = "pause" THEN isRunning(emuState)
    ELSE IF op = "suspend" THEN suspendCounter > 0 \/ isRunning(emuState)
    ELSE suspendCounter = 1

\* mutant of Proceeds: powerOn() and run() do not ask isReady()
ProceedsUnready(op) ==
    IF op = "powerOn" THEN ~isPoweredOn(emuState)
    ELSE IF op = "powerOff" THEN ~isPoweredOff(emuState)
    ELSE IF op = "run" THEN ~isRunning(emuState)
    ELSE IF op = "pause" THEN isRunning(emuState)
    ELSE IF op = "suspend" THEN suspendCounter > 0 \/ isRunning(emuState)
    ELSE suspendCounter = 1

\* the call has something to do: it acquires the thread lock and changes the
\* state. resume(): suspendCounter && --suspendCounter == 0
Proceeds(op) ==
    IF op = "powerOn" THEN ~isPoweredOn(emuState) /\ ready
    ELSE IF op = "powerOff" THEN ~isPoweredOff(emuState)
    ELSE IF op = "run" THEN ~isRunning(emuState) /\ ready
    ELSE IF op = "pause" THEN isRunning(emuState)
    ELSE IF op = "suspend" THEN suspendCounter > 0 \/ isRunning(emuState)
    ELSE suspendCounter = 1

\* what the call does once it holds the thread lock
Effect(op, c) ==
    IF op = "powerOn" THEN powerOn(c)
    ELSE IF op = "powerOff" THEN powerOff(c)
    ELSE IF op = "pause" THEN pause(c)
    ELSE IF op = "suspend" THEN c
    ELSE run(c)

\* mutant of requestStop: a second request takes the first one back
RequestStopToggle(flag) == ~flag

\* requestStop() { stopFlag = true; }
requestStop(flag) == TRUE

\* mutant of acquireThreadLock: a running emulator is not requested to stop
AcquireWithoutStop(st, flag, lock) ==
    [stopFlag |-> flag, threadLock |-> IF isRunning(st) THEN lock ELSE "free"]

\* acquireThreadLock(), before it locks: a running emulator is requested to
\* stop, which makes its thread free the lock; otherwise there is no thread
\* and the lock is freed at once
acquireThreadLock(st, flag, lock) ==
    IF isRunning(st)
    THEN [stopFlag |-> requestStop(flag), threadLock |-> lock]
    ELSE [stopFlag |-> flag, threadLock |-> "free"]

\* the suspend() / resume() block in progress, after the call op was made in
\* state st
Nested(n, op, st) ==
    IF op = "suspend"
    THEN IF n.depth = 0
         THEN [depth |-> 1, before |-> st, pure |-> TRUE, ended |-> FALSE]
         ELSE [n EXCEPT !.depth = @ + 1]
    ELSE IF op = "resume"
    THEN IF n.depth > 0
         THEN [n EXCEPT !.depth = @ - 1, !.ended = (n.depth = 1)]
         ELSE [n EXCEPT !.ended = FALSE]
    ELSE IF n.depth > 0 THEN [n EXCEPT !.pure = FALSE] ELSE [n EXCEPT !.ended = FALSE]

\* the calls the model makes: the nesting is bounded
Callable(op) == op = "suspend" => (suspendCounter < MaxSuspend /\ nest.depth < MaxSuspend)

\* mutant of Decremented: resume() leaves the counter as it is
NotDecremented(op) == suspendCounter

\* suspendCounter after the test of resume()
Decremented(op) ==
    IF op = "resume" /\ suspendCounter > 0 THEN suspendCounter - 1 ELSE suspendCounter

\* a call that has nothing to do returns at once
CallNoOp ==
    /\ call = NoCall
    /\ \E op \in ApiCalls :
          /\ Callable(op)
          /\ ~Proceeds(op)
          /\ lastCall' = [op |-> op, from |-> emuState, ready |-> ready, to |-> emuState,
                          log |-> <<>>]
          /\ suspendCounter' = Decremented(op)
          /\ nest' = Nested(nest, op, emuState)
    /\ UNCHANGED <<emuState, ready, call>>
    /\ UNCHANGED threadVars
    /\ UNCHANGED fsVars
    /\ UNCHANGED flashVars
    /\ UNCHANGED clockVars
    /\ UNCHANGED snapVars
    /\ UNCHANGED itemVars
    /\ UNCHANGED fileVars

Began(op, a) ==
    /\ call' = [op |-> op, from |-> emuState, ready |-> ready, phase |-> "acquire", log |-> <<>>]
    /\ stopFlag' = a.stopFlag
    /\ threadLock' = a.threadLock
    /\ suspendCounter' = Decremented(op)
    /\ nest' = Nested(nest, op, emuState)

\* a call takes stateChangeLock and enters acquireThreadLock()
CallBegin ==
    /\ call = NoCall
    /\ \E op \in ApiCalls :
          /\ Callable(op)
          /\ Proceeds(op)
          /\ Began(op, acquireThreadLock(emuState, stopFlag, threadLock))
    /\ UNCHANGED <<emuState, ready, lastCall>>
    /\ UNCHANGED <<runLoopCtrl, p, rasterLine, rasterCycle, pc, boundary, lastBoundary, wanted, lastExit>>
    /\ UNCHANGED fsVars
    /\ UNCHANGED flashVars
    /\ UNCHANGED clockVars
    /\ UNCHANGED snapVars
    /\ UNCHANGED itemVars
    /\ UNCHANGED fileVars

\* acquireThreadLock() locks threadLock and returns
CallAcquired ==
    /\ call.phase = "acquire"
    /\ threadLock = "free"
    /\ threadLock' = "host"
    /\ call' = [call EXCEPT !.phase = "locked"]
    /\ UNCHANGED <<emuState, ready, suspendCounter, lastCall, nest>>
    /\ UNCHANGED <<runLoopCtrl, stopFlag, p, rasterLine, rasterCycle, pc, boundary, lastBoundary, wanted, lastExit>>
    /\ UNCHANGED fsVars
    /\ UNCHANGED flashVars
    /\ UNCHANGED clockVars
    /\ UNCHANGED snapVars
    /\ UNCHANGED itemVars
    /\ UNCHANGED fileVars

\* the call has changed the component to c; _run() has started the emulator
\* thread, which owns threadLock from then on
Finished(c) ==
    /\ emuState' = c.state
    /\ lastCall' = [op |-> call.op, from |-> call.from, ready |-> call.ready, to |-> c.state,
                    log |-> c.log]
    /\ suspendCounter' = IF call.op = "suspend" THEN suspendCounter + 1 ELSE suspendCounter
    /\ p' = isRunning(c.state)
    /\ pc' = IF isRunning(c.state) THEN "cycle" ELSE pc
    /\ threadLock' = IF isRunning(c.state) THEN "emu" ELSE threadLock

\* the call changes the state and frees stateChangeLock
CallFinish ==
    /\ call.phase = "locked"
    /\ Finished(Effect(call.op, Component(emuState, call.log)))
    /\ call' = NoCall
    /\ UNCHANGED <<ready, nest>>
    /\ UNCHANGED <<runLoopCtrl, stopFlag, rasterLine, rasterCycle, boundary, lastBoundary, wanted, lastExit>>
    /\ UNCHANGED fsVars
    /\ UNCHANGED flashVars
    /\ UNCHANGED clockVars
    /\ UNCHANGED snapVars
    /\ UNCHANGED itemVars
    /\ UNCHANGED fileVars

\* the Roms are installed: isReady() holds from now on
InstallRoms ==
    /\ ~ready
    /\ ready' = TRUE
    /\ UNCHANGED <<emuState, suspendCounter, call, lastCall, nest>>
    /\ UNCHANGED threadVars
    /\ UNCHANGED fsVars
    /\ UNCHANGED flashVars
    /\ UNCHANGED clockVars
    /\ UNCHANGED snapVars
    /\ UNCHANGED itemVars
    /\ UNCHANGED fileVars

\* the host calls requestStop()
RequestStop ==
    /\ stopFlag' = requestStop(stopFlag)
    /\ UNCHANGED <<emuState, ready, suspendCounter, call, lastCall, nest>>
    /\ UNCHANGED <<runLoopCtrl, p, threadLock, rasterLine, rasterCycle, pc, boundary, lastBoundary, wanted, lastExit>>
    /\ UNCHANGED fsVars
    /\ UNCHANGED flashVars
    /\ UNCHANGED clockVars
    /\ UNCHANGED snapVars
    /\ UNCHANGED itemVars
    /\ UNCHANGED fileVars

-----------------------------------------------------------------------------
(* C64: the emulator thread and the run loop control flags *)

RL_STOP == "RL_STOP"

RL_CPU_JAMMED == "RL_CPU_JAMMED"

RL_BREAKPOINT_REACHED == "RL_BREAKPOINT_REACHED"

RL_WATCHPOINT_REACHED == "RL_WATCHPOINT_REACHED"

RL_INSPECT == "RL_INSPECT"

RL_AUTO_SNAPSHOT == "RL_AUTO_SNAPSHOT"

RL_USER_SNAPSHOT == "RL_USER_SNAPSHOT"

\* the order in which the run loop examines the flags
Priority ==
    <<RL_STOP, RL_CPU_JAMMED, RL_BREAKPOINT_REACHED, RL_WATCHPOINT_REACHED,
      RL_INSPECT, RL_AUTO_SNAPSHOT, RL_USER_SNAPSHOT>>

\* the flags that end the run loop
BreakFlags == {RL_STOP, RL_CPU_JAMMED, RL_BREAKPOINT_REACHED, RL_WATCHPOINT_REACHED}

\* the flags the CPU sets while a cycle is executed
CpuFlags == {RL_CPU_JAMMED, RL_BREAKPOINT_REACHED, RL_WATCHPOINT_REACHED}

\* the flags the host sets: signalInspect, signalAutoSnapshot, signalUserSnapshot
HostFlags == {RL_INSPECT, RL_AUTO_SNAPSHOT, RL_USER_SNAPSHOT}

\* what a cycle does to the flags: nothing, or one of the CPU's signals
CpuEvents == {{}} \cup {{f} : f \in CpuFlags}

\* the same, with the breakpoint as the only signal
BreakpointEvents == {{}, {RL_BREAKPOINT_REACHED}}

\* mutant of setControlFlags: the flags that were set before are lost
SetControlFlagsStore(ctrl, flags) == flags

\* setControlFlags(flags): runLoopCtrl |= flags, in one step
setControlFlags(ctrl, flags) == ctrl \cup flags

\* clearControlFlags(flags): runLoopCtrl &= ~flags, in one step
clearControlFlags(ctrl, flags) == ctrl \ flags

\* the position of the first flag that is set, from position i on; 0 if none
FirstSet(ctrl, i) ==
    IF \E j \in i..Len(Priority) : Priority[j] \in ctrl
    THEN CHOOSE j \in i..Len(Priority) :
             /\ Priority[j] \in ctrl
             /\ \A k \in i..(j - 1) : Priority[k] \notin ctrl
    ELSE 0

\* mutant of LastCycleOfFrame: the last cycle of every rasterline
LastCycleOfLine == rasterCycle = CyclesPerLine

\* the last cycle of the last rasterline is the one to execute
LastCycleOfFrame == rasterLine = LinesPerFrame - 1 /\ rasterCycle = CyclesPerLine

\* the run loop starts to examine the flags ctrl
Examine(ctrl, atEnd) == [found |-> ctrl, serviced |-> <<>>, atEnd |-> atEnd, next |-> 1]

\* mutant of Cycled: the first cycle of a rasterline is numbered 0
CycledFromZero(ctrl) ==
    /\ runLoopCtrl' = ctrl
    /\ rasterCycle' = IF rasterCycle = CyclesPerLine THEN 0 ELSE rasterCycle + 1
    /\ rasterLine' = IF rasterCycle < CyclesPerLine THEN rasterLine
                     ELSE IF rasterLine = LinesPerFrame - 1 THEN 0 ELSE rasterLine + 1
    /\ pc' = IF LastCycleOfFrame THEN "endFrame"
             ELSE IF ctrl \cap CpuFlags # {} THEN "service" ELSE "cycle"
    /\ boundary' = IF ~LastCycleOfFrame /\ ctrl \cap CpuFlags # {}
                   THEN Examine(ctrl, FALSE) ELSE boundary

\* the cycle was executed and left the flags ctrl: the frame is completed,
\* or executeOneFrame() ends early because the CPU has jammed or has reached
\* a breakpoint or watchpoint, or the next cycle follows
Cycled(ctrl) ==
    /\ runLoopCtrl' = ctrl
    /\ rasterCycle' = IF rasterCycle = CyclesPerLine THEN 1 ELSE rasterCycle + 1
    /\ rasterLine' = IF rasterCycle < CyclesPerLine THEN rasterLine
                     ELSE IF rasterLine = LinesPerFrame - 1 THEN 0 ELSE rasterLine + 1
    /\ pc' = IF LastCycleOfFrame THEN "endFrame"
             ELSE IF ctrl \cap CpuFlags # {} THEN "service" ELSE "cycle"
    /\ boundary' = IF ~LastCycleOfFrame /\ ctrl \cap CpuFlags # {}
                   THEN Examine(ctrl, FALSE) ELSE boundary

\* a counter after one more count
Advanced(n) == IF n = NotFollowed THEN n ELSE n + 1

\* executeOneCycle(), with the signals the CPU may give; the model follows
\* the counters up to MaxClock cycles and MaxFrames frames
ExecuteOneCycle(events) ==
    /\ pc = "cycle"
    /\ clock < MaxClock
    /\ frame < MaxFrames
    /\ \E e \in events :
          /\ Cycled(setControlFlags(runLoopCtrl, e))
          /\ wanted' = wanted \cup e
    /\ clock' = Advanced(clock)
    /\ UNCHANGED <<emuState, ready, suspendCounter, call, lastCall, nest>>
    /\ UNCHANGED <<stopFlag, p, threadLock, lastBoundary, lastExit>>
    /\ UNCHANGED fsVars
    /\ UNCHANGED flashVars
    /\ UNCHANGED frame
    /\ UNCHANGED snapVars
    /\ UNCHANGED itemVars
    /\ UNCHANGED fileVars

\* the frame has ended with the flags ctrl
FrameEnded(ctrl) ==
    /\ runLoopCtrl' = ctrl
    /\ boundary' = Examine(ctrl, TRUE)

\* the auto-snapshot is due after frame f: the feature is enabled, the
\* interval is positive and has passed since the last auto-snapshot
AutoSnapshotDue(f) ==
    /\ takeAutoSnapshots
    /\ autoSnapshotInterval > 0
    /\ f # NotFollowed
    /\ f >= lastAuto + autoSnapshotInterval * FramesPerSecond

\* the flags endFrame() sets after frame f: RL_STOP for a stop request
\* (signalStop()), RL_AUTO_SNAPSHOT when the auto-snapshot is due
\* (signalAutoSnapshot())
Signals(stop, f) ==
    (IF stop THEN {RL_STOP} ELSE {}) \cup (IF AutoSnapshotDue(f) THEN {RL_AUTO_SNAPSHOT} ELSE {})

\* endFrame(): the frame is counted, a stop request is turned into RL_STOP
\* and a due auto-snapshot into RL_AUTO_SNAPSHOT; the run loop examines
\* runLoopCtrl next
EndFrame ==
    /\ pc = "endFrame"
    /\ FrameEnded(setControlFlags(runLoopCtrl, Signals(stopFlag, Advanced(frame))))
    /\ wanted' = wanted \cup Signals(stopFlag, Advanced(frame))
    /\ stopFlag' = FALSE
    /\ pc' = "service"
    /\ frame' = Advanced(frame)
    /\ lastAuto' = IF AutoSnapshotDue(Advanced(frame)) THEN Advanced(frame) ELSE lastAuto
    /\ UNCHANGED <<emuState, ready, suspendCounter, call, lastCall, nest>>
    /\ UNCHANGED <<p, threadLock, rasterLine, rasterCycle, lastBoundary, lastExit>>
    /\ UNCHANGED fsVars
    /\ UNCHANGED flashVars
    /\ UNCHANGED <<clock, autoSnapshotInterval, takeAutoSnapshots, autoSnapshots, userSnapshots,
                   snapCalls>>
    /\ UNCHANGED itemVars
    /\ UNCHANGED fileVars

\* mutant of takeSnapshot: a full storage loses its newest snapshot
TakeSnapshotDropNewest(storage, s) ==
    IF Len(storage) >= MAX_SNAPSHOTS THEN <<s>> \o Tail(storage) ELSE <<s>> \o storage

\* takeSnapshot(storage): the snapshot s is inserted at position 0 and the
\* others move one position up; the oldest one of a full storage is deleted
takeSnapshot(storage, s) ==
    IF Len(storage) >= MAX_SNAPSHOTS
    THEN <<s>> \o SubSeq(storage, 1, MAX_SNAPSHOTS - 1)
    ELSE <<s>> \o storage

\* deleteSnapshot(storage, nr): the snapshot at position nr is removed and
\* the ones behind it move one position down; no snapshot, no change
deleteSnapshot(storage, nr) ==
    IF nr < Len(storage)
    THEN SubSeq(storage, 1, nr) \o SubSeq(storage, nr + 2, Len(storage))
    ELSE storage

\* the storage after the run loop has taken a snapshot: the n-th snapshot
\* of the storage carries the stamp n
Stored(storage, n) == IF n = NotFollowed THEN storage ELSE takeSnapshot(storage, n)

\* the flag at position j of Priority is serviced and cleared; a flag that
\* ends the run loop leaves the other flags as they are; RL_AUTO_SNAPSHOT
\* and RL_USER_SNAPSHOT take a snapshot into their storage
Serviced(j, b) ==
    /\ runLoopCtrl' = clearControlFlags(runLoopCtrl, {Priority[j]})
    /\ wanted' = wanted \ {Priority[j]}
    /\ boundary' = b
    /\ pc' = IF Priority[j] \in BreakFlags THEN "exit" ELSE "service"
    /\ lastBoundary' = IF Priority[j] \in BreakFlags THEN b ELSE lastBoundary
    /\ lastExit' = IF Priority[j] \in BreakFlags
                   THEN [cause |-> Priority[j], line |-> rasterLine, cycle |-> rasterCycle]
                   ELSE lastExit
    /\ autoSnapshots' = IF Priority[j] = RL_AUTO_SNAPSHOT
                        THEN Stored(autoSnapshots, snapCalls.auto) ELSE autoSnapshots
    /\ userSnapshots' = IF Priority[j] = RL_USER_SNAPSHOT
                        THEN Stored(userSnapshots, snapCalls.user) ELSE userSnapshots
    /\ snapCalls' = IF Priority[j] = RL_AUTO_SNAPSHOT
                    THEN [snapCalls EXCEPT !.auto = Advanced(@)]
                    ELSE IF Priority[j] = RL_USER_SNAPSHOT
                    THEN [snapCalls EXCEPT !.user = Advanced(@)]
                    ELSE snapCalls

\* no flag is left to examine: the run loop repeats (synchronizeTiming())
Repeated ==
    /\ pc' = "cycle"
    /\ lastBoundary' = boundary
    /\ boundary' = NoBoundary
    /\ UNCHANGED <<runLoopCtrl, wanted, lastExit>>
    /\ UNCHANGED <<autoSnapshots, userSnapshots, snapCalls>>

\* the run loop examines runLoopCtrl: the next flag that is set, in the order
\* of Priority, is serviced
ServiceFlags ==
    /\ pc = "service"
    /\ IF FirstSet(runLoopCtrl, boundary.next) = 0
       THEN Repeated
       ELSE Serviced(FirstSet(runLoopCtrl, boundary.next),
                     [boundary EXCEPT
                         !.serviced = Append(@, Priority[FirstSet(runLoopCtrl, boundary.next)]),
                         !.next = FirstSet(runLoopCtrl, boundary.next) + 1])
    /\ UNCHANGED <<emuState, ready, suspendCounter, call, lastCall, nest>>
    /\ UNCHANGED <<stopFlag, p, threadLock, rasterLine, rasterCycle>>
    /\ UNCHANGED fsVars
    /\ UNCHANGED flashVars
    /\ UNCHANGED clockVars
    /\ UNCHANGED <<lastAuto, autoSnapshotInterval, takeAutoSnapshots>>
    /\ UNCHANGED itemVars
    /\ UNCHANGED fileVars

\* threadDidTerminate(): the components are paused, the thread is gone and
\* threadLock is free
ThreadDidTerminate ==
    /\ pc = "exit"
    /\ pc' = "none"
    /\ p' = FALSE
    /\ threadLock' = "free"
    /\ emuState' = pause(Component(emuState, <<>>)).state
    /\ call' = IF call = NoCall THEN call
               ELSE [call EXCEPT !.log = pause(Component(emuState, call.log)).log]
    /\ boundary' = NoBoundary
    /\ UNCHANGED <<ready, suspendCounter, lastCall, nest>>
    /\ UNCHANGED <<runLoopCtrl, stopFlag, rasterLine, rasterCycle, lastBoundary, wanted, lastExit>>
    /\ UNCHANGED fsVars
    /\ UNCHANGED flashVars
    /\ UNCHANGED clockVars
    /\ UNCHANGED snapVars
    /\ UNCHANGED itemVars
    /\ UNCHANGED fileVars

\* the host sets a flag: signalInspect(), signalAutoSnapshot(), signalUserSnapshot()
SignalHost ==
    /\ \E f \in HostFlags :
          /\ runLoopCtrl' = setControlFlags(runLoopCtrl, {f})
          /\ wanted' = wanted \cup {f}
    /\ UNCHANGED <<emuState, ready, suspendCounter, call, lastCall, nest>>
    /\ UNCHANGED <<stopFlag, p, threadLock, rasterLine, rasterCycle, pc, boundary, lastBoundary, lastExit>>
    /\ UNCHANGED fsVars
    /\ UNCHANGED flashVars
    /\ UNCHANGED clockVars
    /\ UNCHANGED snapVars
    /\ UNCHANGED itemVars
    /\ UNCHANGED fileVars

-----------------------------------------------------------------------------
(* The emulator with its calls: a breakpoint is the only signal *)

EmuInit ==
    /\ emuState = EMULATOR_STATE_OFF
    /\ ready = FALSE
    /\ suspendCounter = 0
    /\ runLoopCtrl = {}
    /\ stopFlag = FALSE
    /\ p = FALSE
    /\ threadLock = "free"
    /\ call = NoCall
    /\ rasterLine = 0
    /\ rasterCycle = 1
    /\ pc = "none"
    /\ lastCall = NoLastCall
    /\ nest = NoNest
    /\ boundary = NoBoundary
    /\ lastBoundary = NoBoundary
    /\ wanted = {}
    /\ lastExit = NoExit
    /\ blocks = <<>>
    /\ lastOp = <<>>
    /\ dst = NoBuffer
    /\ imported = NoBuffer
    /\ trail = <<>>
    /\ ops = 0
    /\ corrupted = EmptyData
    /\ state = "FLASH_READ"
    /\ baseState = "FLASH_READ"
    /\ rom = <<>>
    /\ lastPoke = <<>>
    /\ preRom = <<>>
    /\ pokes = 0
    /\ clock = NotFollowed
    /\ frame = NotFollowed
    /\ lastAuto = 0
    /\ autoSnapshotInterval = DefaultInterval
    /\ takeAutoSnapshots = TRUE
    /\ autoSnapshots = <<>>
    /\ userSnapshots = <<>>
    /\ snapCalls = NoSnapCalls
    /\ config = DefaultConfig
    /\ frequency = PAL_CLOCK_FREQUENCY
    /\ durationOfOneCycle = Duration(PAL_CLOCK_FREQUENCY)
    /\ warpMode = FALSE
    /\ ultimax = FALSE
    /\ buffer = <<>>
    /\ lastCore = NoCore
    /\ anyFile = NoFile
    /\ freshFile = NoFile
    /\ callerBuf = <<>>

EmuCycle == ExecuteOneCycle(BreakpointEvents)

EmuNext ==
    \/ CallNoOp
    \/ CallBegin
    \/ CallAcquired
    \/ CallFinish
    \/ InstallRoms
    \/ RequestStop
    \/ EmuCycle
    \/ EndFrame
    \/ ServiceFlags
    \/ ThreadDidTerminate

SpecEmu == EmuInit /\ [][EmuNext]_vars

\* the emulator thread keeps running, and so does the host thread that is
\* inside a call
ThreadNext == EmuCycle \/ EndFrame \/ ServiceFlags \/ ThreadDidTerminate

SpecEmuFair ==
    /\ EmuInit
    /\ [][EmuNext]_vars
    /\ WF_vars(ThreadNext)
    /\ WF_vars(CallAcquired)
    /\ WF_vars(CallFinish)

-----------------------------------------------------------------------------
(* The emulator with its calls and the counters: the master clock and the   *)
(* frame counter are followed from power up                                 *)

ClockInit ==
    /\ emuState = EMULATOR_STATE_OFF
    /\ ready = FALSE
    /\ suspendCounter = 0
    /\ runLoopCtrl = {}
    /\ stopFlag = FALSE
    /\ p = FALSE
    /\ threadLock = "free"
    /\ call = NoCall
    /\ rasterLine = 0
    /\ rasterCycle = 1
    /\ pc = "none"
    /\ lastCall = NoLastCall
    /\ nest = NoNest
    /\ boundary = NoBoundary
    /\ lastBoundary = NoBoundary
    /\ wanted = {}
    /\ lastExit = NoExit
    /\ blocks = <<>>
    /\ lastOp = <<>>
    /\ dst = NoBuffer
    /\ imported = NoBuffer
    /\ trail = <<>>
    /\ ops = 0
    /\ corrupted = EmptyData
    /\ state = "FLASH_READ"
    /\ baseState = "FLASH_READ"
    /\ rom = <<>>
    /\ lastPoke = <<>>
    /\ preRom = <<>>
    /\ pokes = 0
    /\ clock = 0
    /\ frame = 0
    /\ lastAuto = 0
    /\ autoSnapshotInterval = DefaultInterval
    /\ takeAutoSnapshots = TRUE
    /\ autoSnapshots = <<>>
    /\ userSnapshots = <<>>
    /\ snapCalls = NoSnapCalls
    /\ config = DefaultConfig
    /\ frequency = PAL_CLOCK_FREQUENCY
    /\ durationOfOneCycle = Duration(PAL_CLOCK_FREQUENCY)
    /\ warpMode = FALSE
    /\ ultimax = FALSE
    /\ buffer = <<>>
    /\ lastCore = NoCore
    /\ anyFile = NoFile
    /\ freshFile = NoFile
    /\ callerBuf = <<>>

SpecClock == ClockInit /\ [][EmuNext]_vars

-----------------------------------------------------------------------------
(* The snapshot storages with the calls takeSnapshot and deleteSnapshot: the *)
(* n-th snapshot taken into a storage carries the stamp n                    *)

SnapInit ==
    /\ emuState = EMULATOR_STATE_OFF
    /\ ready = FALSE
    /\ suspendCounter = 0
    /\ runLoopCtrl = {}
    /\ stopFlag = FALSE
    /\ p = FALSE
    /\ threadLock = "free"
    /\ call = NoCall
    /\ rasterLine = 0
    /\ rasterCycle = 1
    /\ pc = "none"
    /\ lastCall = NoLastCall
    /\ nest = NoNest
    /\ boundary = NoBoundary
    /\ lastBoundary = NoBoundary
    /\ wanted = {}
    /\ lastExit = NoExit
    /\ blocks = <<>>
    /\ lastOp = <<>>
    /\ dst = NoBuffer
    /\ imported = NoBuffer
    /\ trail = <<>>
    /\ ops = 0
    /\ corrupted = EmptyData
    /\ state = "FLASH_READ"
    /\ baseState = "FLASH_READ"
    /\ rom = <<>>
    /\ lastPoke = <<>>
    /\ preRom = <<>>
    /\ pokes = 0
    /\ clock = NotFollowed
    /\ frame = NotFollowed
    /\ lastAuto = 0
    /\ autoSnapshotInterval = DefaultInterval
    /\ takeAutoSnapshots = TRUE
    /\ autoSnapshots = <<>>
    /\ userSnapshots = <<>>
    /\ snapCalls = [auto |-> 0, user |-> 0, deleted |-> 0]
    /\ config = DefaultConfig
    /\ frequency = PAL_CLOCK_FREQUENCY
    /\ durationOfOneCycle = Duration(PAL_CLOCK_FREQUENCY)
    /\ warpMode = FALSE
    /\ ultimax = FALSE
    /\ buffer = <<>>
    /\ lastCore = NoCore
    /\ anyFile = NoFile
    /\ freshFile = NoFile
    /\ callerBuf = <<>>

\* the two storages
Storages == {"auto", "user"}

\* the storage of that name
StorageOf(st) == IF st = "auto" THEN autoSnapshots ELSE userSnapshots

\* the positions handed to deleteSnapshot: the first two, the last one of a
\* full storage and one past it
DeleteAt == {0, 1, MAX_SNAPSHOTS - 1, MAX_SNAPSHOTS}

\* the storage st has become storage
StorageSet(st, storage) ==
    /\ autoSnapshots' = IF st = "auto" THEN storage ELSE autoSnapshots
    /\ userSnapshots' = IF st = "user" THEN storage ELSE userSnapshots

\* takeAutoSnapshot() / takeUserSnapshot(): takeSnapshot on the storage
DoTakeSnapshot ==
    /\ snapCalls.auto + snapCalls.user < MaxTaken
    /\ \E st \in Storages :
          /\ StorageSet(st, takeSnapshot(StorageOf(st), snapCalls[st]))
          /\ snapCalls' = [snapCalls EXCEPT ![st] = Advanced(@)]
          /\ lastCore' = [op |-> "takeSnapshot", arg |-> <<st, snapCalls[st]>>, ret |-> 0,
                          pre |-> StorageOf(st)]
    /\ UNCHANGED <<lastAuto, autoSnapshotInterval, takeAutoSnapshots>>
    /\ UNCHANGED <<config, frequency, durationOfOneCycle, warpMode, ultimax, buffer>>
    /\ UNCHANGED clockVars
    /\ UNCHANGED <<emuState, ready, suspendCounter, call, lastCall, nest>>
    /\ UNCHANGED threadVars
    /\ UNCHANGED fsVars
    /\ UNCHANGED flashVars
    /\ UNCHANGED fileVars

\* deleteAutoSnapshot(nr) / deleteUserSnapshot(nr): deleteSnapshot on the storage
DoDeleteSnapshot ==
    /\ snapCalls.deleted < MaxDeletes
    /\ \E st \in Storages, nr \in DeleteAt :
          /\ StorageSet(st, deleteSnapshot(StorageOf(st), nr))
          /\ lastCore' = [op |-> "deleteSnapshot", arg |-> <<st, nr>>, ret |-> 0,
                          pre |-> StorageOf(st)]
    /\ snapCalls' = [snapCalls EXCEPT !.deleted = @ + 1]
    /\ UNCHANGED <<lastAuto, autoSnapshotInterval, takeAutoSnapshots>>
    /\ UNCHANGED <<config, frequency, durationOfOneCycle, warpMode, ultimax, buffer>>
    /\ UNCHANGED clockVars
    /\ UNCHANGED <<emuState, ready, suspendCounter, call, lastCall, nest>>
    /\ UNCHANGED threadVars
    /\ UNCHANGED fsVars
    /\ UNCHANGED flashVars
    /\ UNCHANGED fileVars

SnapNext == DoTakeSnapshot \/ DoDeleteSnapshot

SpecSnap == SnapInit /\ [][SnapNext]_vars

-----------------------------------------------------------------------------
(* The auto-snapshots of a running emulator: the run loop with the frame    *)
(* counter, and the calls that suspend, resume and set the interval. A long *)
(* has 7 bits here: LONG_MAX = 63 and LONG_MAX / 2 = 31                      *)

LONG_MAX == 63

LONG_MIN == 0 - LONG_MAX - 1

\* the long x wrapped around
Wrapped(x) == ((x - LONG_MIN) % (2 * LONG_MAX + 2)) + LONG_MIN

\* the results of an addition or subtraction of longs whose exact value is
\* x: signed overflow is undefined, the result wraps around or sticks at
\* the end of the range
LongResults(x) ==
    IF x >= LONG_MIN /\ x <= LONG_MAX THEN {x}
    ELSE {Wrapped(x), IF x > LONG_MAX THEN LONG_MAX ELSE LONG_MIN}

\* suspendAutoSnapshots() { autoSnapshotInterval -= (LONG_MAX / 2); }
suspendAutoSnapshots(interval) == LongResults(interval - (LONG_MAX \div 2))

\* resumeAutoSnapshots() { autoSnapshotInterval += (LONG_MAX / 2); }
resumeAutoSnapshots(interval) == LongResults(interval + (LONG_MAX \div 2))

\* setSnapshotInterval(value) { autoSnapshotInterval = value; }
setSnapshotInterval(interval, value) == value

\* the values handed to setSnapshotInterval, in seconds
Intervals == {1, 2}

\* no suspendAutoSnapshots() is unmatched: depth counts the unmatched ones,
\* before is the interval and since the frame at the first of them
NoSuspension == [depth |-> 0, before |-> 0, since |-> 0]

\* the unmatched suspendAutoSnapshots() calls after one more
Suspended(n) ==
    IF n.depth = 0 THEN [depth |-> 1, before |-> autoSnapshotInterval, since |-> frame]
    ELSE [n EXCEPT !.depth = @ + 1]

AutoInit ==
    /\ emuState = EMULATOR_STATE_RUNNING
    /\ ready = TRUE
    /\ suspendCounter = 0
    /\ runLoopCtrl = {}
    /\ stopFlag = FALSE
    /\ p = TRUE
    /\ threadLock = "emu"
    /\ call = NoCall
    /\ rasterLine = 0
    /\ rasterCycle = 1
    /\ pc = "cycle"
    /\ lastCall = [op |-> "run", from |-> EMULATOR_STATE_OFF, ready |-> TRUE,
                   to |-> EMULATOR_STATE_RUNNING,
                   log |-> run(Component(EMULATOR_STATE_OFF, <<>>)).log]
    /\ nest = NoNest
    /\ boundary = NoBoundary
    /\ lastBoundary = NoBoundary
    /\ wanted = {}
    /\ lastExit = NoExit
    /\ blocks = <<>>
    /\ lastOp = <<>>
    /\ dst = NoBuffer
    /\ imported = NoBuffer
    /\ trail = <<>>
    /\ ops = 0
    /\ corrupted = EmptyData
    /\ state = "FLASH_READ"
    /\ baseState = "FLASH_READ"
    /\ rom = <<>>
    /\ lastPoke = <<>>
    /\ preRom = <<>>
    /\ pokes = 0
    /\ clock = NotFollowed
    /\ frame = 0
    /\ lastAuto = 0
    /\ autoSnapshotInterval = DefaultInterval
    /\ takeAutoSnapshots = TRUE
    /\ autoSnapshots = <<>>
    /\ userSnapshots = <<>>
    /\ snapCalls = [auto |-> 0, user |-> 0, deleted |-> 0]
    /\ config = DefaultConfig
    /\ frequency = PAL_CLOCK_FREQUENCY
    /\ durationOfOneCycle = Duration(PAL_CLOCK_FREQUENCY)
    /\ warpMode = FALSE
    /\ ultimax = FALSE
    /\ buffer = <<>>
    /\ lastCore = [op |-> "none", arg |-> <<>>, ret |-> DefaultInterval,
                  pre |-> NoSuspension]
    /\ anyFile = NoFile
    /\ freshFile = NoFile
    /\ callerBuf = <<>>

\* the host calls suspendAutoSnapshots()
DoSuspendAutoSnapshots ==
    /\ lastCore.pre.depth < MaxAutoSuspend
    /\ \E v \in suspendAutoSnapshots(autoSnapshotInterval) :
          /\ autoSnapshotInterval' = v
          /\ lastCore' = [op |-> "suspendAutoSnapshots", arg |-> <<>>, ret |-> v,
                          pre |-> Suspended(lastCore.pre)]
    /\ UNCHANGED <<lastAuto, takeAutoSnapshots, autoSnapshots, userSnapshots, snapCalls>>
    /\ UNCHANGED <<config, frequency, durationOfOneCycle, warpMode, ultimax, buffer>>
    /\ UNCHANGED clockVars
    /\ UNCHANGED <<emuState, ready, suspendCounter, call, lastCall, nest>>
    /\ UNCHANGED threadVars
    /\ UNCHANGED fsVars
    /\ UNCHANGED flashVars
    /\ UNCHANGED fileVars

\* the host calls resumeAutoSnapshots(), after a suspendAutoSnapshots()
DoResumeAutoSnapshots ==
    /\ lastCore.pre.depth > 0
    /\ \E v \in resumeAutoSnapshots(autoSnapshotInterval) :
          /\ autoSnapshotInterval' = v
          /\ lastCore' = [op |-> "resumeAutoSnapshots", arg |-> <<>>, ret |-> v,
                          pre |-> [lastCore.pre EXCEPT !.depth = @ - 1]]
    /\ UNCHANGED <<lastAuto, takeAutoSnapshots, autoSnapshots, userSnapshots, snapCalls>>
    /\ UNCHANGED <<config, frequency, durationOfOneCycle, warpMode, ultimax, buffer>>
    /\ UNCHANGED clockVars
    /\ UNCHANGED <<emuState, ready, suspendCounter, call, lastCall, nest>>
    /\ UNCHANGED threadVars
    /\ UNCHANGED fsVars
    /\ UNCHANGED flashVars
    /\ UNCHANGED fileVars

\* the host calls setSnapshotInterval(value)
DoSetSnapshotInterval ==
    /\ \E value \in Intervals :
          /\ autoSnapshotInterval' = setSnapshotInterval(autoSnapshotInterval, value)
          /\ lastCore' = [op |-> "setSnapshotInterval", arg |-> <<value>>, ret |-> value,
                          pre |-> lastCore.pre]
    /\ UNCHANGED <<lastAuto, takeAutoSnapshots, autoSnapshots, userSnapshots, snapCalls>>
    /\ UNCHANGED <<config, frequency, durationOfOneCycle, warpMode, ultimax, buffer>>
    /\ UNCHANGED clockVars
    /\ UNCHANGED <<emuState, ready, suspendCounter, call, lastCall, nest>>
    /\ UNCHANGED threadVars
    /\ UNCHANGED fsVars
    /\ UNCHANGED flashVars
    /\ UNCHANGED fileVars

\* a cycle in which the CPU gives no signal
NoEvents == {{}}

AutoCycle == ExecuteOneCycle(NoEvents)

AutoNext ==
    \/ AutoCycle
    \/ EndFrame
    \/ ServiceFlags
    \/ DoSuspendAutoSnapshots
    \/ DoResumeAutoSnapshots
    \/ DoSetSnapshotInterval

SpecAuto == AutoInit /\ [][AutoNext]_vars

-----------------------------------------------------------------------------
(* The configuration: configure(option, value) hands the request to every   *)
(* component by setConfigItem()                                             *)

\* the options that are recognized, with their values
ValidValues ==
    [VIC_MODEL |-> {"PAL_6569", "NTSC_6567", "PAL_8565", "NTSC_8562"},
     GLUE_LOGIC |-> {"DISCRETE", "CUSTOM_IC"},
     SID_FILTER |-> {"on", "off"}]

Options == DOMAIN ValidValues

\* the components, in the order the request reaches them, and the options
\* each of them is responsible for
Components == <<"c64", "vic", "sid">>

Handles == [c64 |-> {}, vic |-> {"VIC_MODEL", "GLUE_LOGIC"}, sid |-> {"SID_FILTER"}]

\* the calls the model makes: every option with a value of its own, a value
\* of another option and a value of no option, and an option that is not
\* recognized
OptionArgs == Options \cup {"OPT_UNKNOWN"}

ValueArgs == {"PAL_6569", "NTSC_6567", "CUSTOM_IC", "off", "on", "INVALID"}

\* mutant of setConfigItem: true whenever the component has taken the value
SetConfigItemTaken(c, cfg, option, value) ==
    IF option \in Handles[c] /\ value \in ValidValues[option]
    THEN [ret |-> TRUE, config |-> [cfg EXCEPT ![option] = value]]
    ELSE [ret |-> FALSE, config |-> cfg]

\* setConfigItem(option, value) of the component c: a component that is not
\* responsible for the option ignores the request; true iff the
\* configuration has changed
setConfigItem(c, cfg, option, value) ==
    IF option \in Handles[c] /\ value \in ValidValues[option] /\ cfg[option] # value
    THEN [ret |-> TRUE, config |-> [cfg EXCEPT ![option] = value]]
    ELSE [ret |-> FALSE, config |-> cfg]

\* the result r so far, joined with the result n of the next component
Joined(r, n) == [ret |-> r.ret \/ n.ret, config |-> n.config]

\* the request reaches the components from the i-th on
RECURSIVE ConfigureFrom(_, _, _, _)
ConfigureFrom(i, r, option, value) ==
    IF i > Len(Components) THEN r
    ELSE ConfigureFrom(i + 1, Joined(r, setConfigItem(Components[i], r.config, option, value)),
                       option, value)

\* configure(option, value): true iff the current configuration has changed
configure(cfg, option, value) ==
    ConfigureFrom(1, [ret |-> FALSE, config |-> cfg], option, value)

ConfigInit ==
    /\ emuState = EMULATOR_STATE_OFF
    /\ ready = FALSE
    /\ suspendCounter = 0
    /\ runLoopCtrl = {}
    /\ stopFlag = FALSE
    /\ p = FALSE
    /\ threadLock = "free"
    /\ call = NoCall
    /\ rasterLine = 0
    /\ rasterCycle = 1
    /\ pc = "none"
    /\ lastCall = NoLastCall
    /\ nest = NoNest
    /\ boundary = NoBoundary
    /\ lastBoundary = NoBoundary
    /\ wanted = {}
    /\ lastExit = NoExit
    /\ blocks = <<>>
    /\ lastOp = <<>>
    /\ dst = NoBuffer
    /\ imported = NoBuffer
    /\ trail = <<>>
    /\ ops = 0
    /\ corrupted = EmptyData
    /\ state = "FLASH_READ"
    /\ baseState = "FLASH_READ"
    /\ rom = <<>>
    /\ lastPoke = <<>>
    /\ preRom = <<>>
    /\ pokes = 0
    /\ clock = NotFollowed
    /\ frame = NotFollowed
    /\ lastAuto = 0
    /\ autoSnapshotInterval = DefaultInterval
    /\ takeAutoSnapshots = TRUE
    /\ autoSnapshots = <<>>
    /\ userSnapshots = <<>>
    /\ snapCalls = NoSnapCalls
    /\ config = DefaultConfig
    /\ frequency = PAL_CLOCK_FREQUENCY
    /\ durationOfOneCycle = Duration(PAL_CLOCK_FREQUENCY)
    /\ warpMode = FALSE
    /\ ultimax = FALSE
    /\ buffer = <<>>
    /\ lastCore = NoCore
    /\ anyFile = NoFile
    /\ freshFile = NoFile
    /\ callerBuf = <<>>

\* the component state a configuration request may not touch when it fails
ItemState == <<frequency, durationOfOneCycle, warpMode, ultimax>>

\* the configuration is c now and the call is recorded
Configured(option, value, c) ==
    /\ config' = c.config
    /\ lastCore' = [op |-> "configure", arg |-> <<option, value>>, ret |-> c.ret,
                    pre |-> [config |-> config, items |-> ItemState]]

\* the host calls configure(option, value)
DoConfigure ==
    /\ \E option \in OptionArgs, value \in ValueArgs :
          Configured(option, value, configure(config, option, value))
    /\ UNCHANGED <<frequency, durationOfOneCycle, warpMode, ultimax, buffer>>
    /\ UNCHANGED snapVars
    /\ UNCHANGED clockVars
    /\ UNCHANGED <<emuState, ready, suspendCounter, call, lastCall, nest>>
    /\ UNCHANGED threadVars
    /\ UNCHANGED fsVars
    /\ UNCHANGED flashVars
    /\ UNCHANGED fileVars

ConfigNext == DoConfigure

SpecConfig == ConfigInit /\ [][ConfigNext]_vars

-----------------------------------------------------------------------------
(* The snapshot items of the C64: _size, _save, _load and _reset hand a     *)
(* worker to applyToPersistentItems and applyToResetItems                   *)

\* static const u16 PAL_HEIGHT = 312
PAL_HEIGHT == 312

\* the items, in the order of applyToPersistentItems and applyToResetItems
PersistentItems == <<"frequency", "durationOfOneCycle">>

ResetItems == <<"frame", "rasterLine", "rasterCycle", "warpMode", "ultimax">>

\* sizeof: u32 frequency, u64 durationOfOneCycle, u64 frame, u16 rasterLine,
\* u8 rasterCycle, bool warpMode, bool ultimax
Width ==
    [frequency |-> 4, durationOfOneCycle |-> 8, frame |-> 8, rasterLine |-> 2, rasterCycle |-> 1,
     warpMode |-> 1, ultimax |-> 1]

BoolItems == {"warpMode", "ultimax"}

\* the items of the C64 as they are
ItemsNow ==
    [frequency |-> frequency, durationOfOneCycle |-> durationOfOneCycle, frame |-> frame,
     rasterLine |-> rasterLine, rasterCycle |-> rasterCycle, warpMode |-> warpMode,
     ultimax |-> ultimax]

\* the item as a number, and the number as the item
ToNumber(name, v) == IF name \in BoolItems THEN (IF v THEN 1 ELSE 0) ELSE v

FromNumber(name, n) == IF name \in BoolItems THEN n # 0 ELSE n

\* the k-th byte of v, counted from the lowest
RECURSIVE ByteAt(_, _)
ByteAt(v, k) == IF k = 0 THEN v % 256 ELSE ByteAt(v \div 256, k - 1)

\* v in n bytes, the highest first
BytesOf(v, n) == [i \in 1..n |-> ByteAt(v, n - i)]

\* the number in the bytes b, the highest first, in its low 31 bits: the
\* values of the items are below 2^31
RECURSIVE NumberOf(_, _, _)
NumberOf(b, i, v) ==
    IF i > Len(b) THEN v ELSE NumberOf(b, i + 1, (v % (2 ^ 23)) * 256 + b[i])

\* a worker on the items st: a SerCounter, SerWriter or SerResetter with no
\* buffer, or a SerReader on the buffer buf
Worker(kind, st, buf) == [kind |-> kind, st |-> st, buf |-> buf, count |-> 0]

\* SerCounter & item: count += sizeof(item)
Counted(w, name) == [w EXCEPT !.count = @ + Width[name]]

\* SerWriter & item: the item is written at ptr, which moves on
Written(w, name) ==
    [w EXCEPT !.buf = @ \o BytesOf(ToNumber(name, w.st[name]), Width[name]),
              !.count = @ + Width[name]]

\* SerReader & item: the item is read at ptr, which moves on
ReadItem(w, name) ==
    [w EXCEPT !.st[name] = FromNumber(name,
                               NumberOf(SubSeq(w.buf, w.count + 1, w.count + Width[name]), 1, 0)),
              !.count = @ + Width[name]]

\* SerResetter & item: the item is zero
Resetted(w, name) == [w EXCEPT !.st[name] = FromNumber(name, 0)]

\* worker & item
Visit(w, name) ==
    IF w.kind = "SerCounter" THEN Counted(w, name)
    ELSE IF w.kind = "SerWriter" THEN Written(w, name)
    ELSE IF w.kind = "SerReader" THEN ReadItem(w, name)
    ELSE Resetted(w, name)

\* the worker after the items from the i-th on
RECURSIVE ApplyFrom(_, _, _)
ApplyFrom(items, i, w) ==
    IF i > Len(items) THEN w ELSE ApplyFrom(items, i + 1, Visit(w, items[i]))

applyToPersistentItems(w) == ApplyFrom(PersistentItems, 1, w)

applyToResetItems(w) == ApplyFrom(ResetItems, 1, w)

\* COMPUTE_SNAPSHOT_SIZE
size(st) == applyToResetItems(applyToPersistentItems(Worker("SerCounter", st, <<>>))).count

\* mutant of save: the reset items are written first
SaveResetFirst(st) == applyToPersistentItems(applyToResetItems(Worker("SerWriter", st, <<>>)))

\* SAVE_SNAPSHOT_ITEMS: the buffer written and writer.ptr - buffer
save(st) == applyToResetItems(applyToPersistentItems(Worker("SerWriter", st, <<>>)))

\* LOAD_SNAPSHOT_ITEMS: the items read and reader.ptr - buffer
load(st, buf) == applyToResetItems(applyToPersistentItems(Worker("SerReader", st, buf)))

\* mutant of reset: the persistent items are reset as well
ResetAllItems(st) ==
    [applyToResetItems(applyToPersistentItems(Worker("SerResetter", st, <<>>))).st
        EXCEPT !.rasterCycle = 1]

\* _reset(): RESET_SNAPSHOT_ITEMS, and the first rasterline cycle is
\* numbered 1
reset(st) == [applyToResetItems(Worker("SerResetter", st, <<>>)).st EXCEPT !.rasterCycle = 1]

\* nothing was saved yet
NoSnapshot == [bytes |-> <<>>, written |-> 0, from |-> <<>>]

\* the values the items start with: the frame, the rasterline and the
\* rasterline cycle of a PAL machine
ItemFrames == {0, 3, 70000}

ItemLines == {0, PAL_HEIGHT - 1}

ItemCycles == {1, 63}

ItemsInit ==
    /\ emuState = EMULATOR_STATE_OFF
    /\ ready = FALSE
    /\ suspendCounter = 0
    /\ runLoopCtrl = {}
    /\ stopFlag = FALSE
    /\ p = FALSE
    /\ threadLock = "free"
    /\ call = NoCall
    /\ rasterLine \in ItemLines
    /\ rasterCycle \in ItemCycles
    /\ pc = "none"
    /\ lastCall = NoLastCall
    /\ nest = NoNest
    /\ boundary = NoBoundary
    /\ lastBoundary = NoBoundary
    /\ wanted = {}
    /\ lastExit = NoExit
    /\ blocks = <<>>
    /\ lastOp = <<>>
    /\ dst = NoBuffer
    /\ imported = NoBuffer
    /\ trail = <<>>
    /\ ops = 0
    /\ corrupted = EmptyData
    /\ state = "FLASH_READ"
    /\ baseState = "FLASH_READ"
    /\ rom = <<>>
    /\ lastPoke = <<>>
    /\ preRom = <<>>
    /\ pokes = 0
    /\ clock = NotFollowed
    /\ frame \in ItemFrames
    /\ lastAuto = 0
    /\ autoSnapshotInterval = DefaultInterval
    /\ takeAutoSnapshots = TRUE
    /\ autoSnapshots = <<>>
    /\ userSnapshots = <<>>
    /\ snapCalls = NoSnapCalls
    /\ config = DefaultConfig
    /\ frequency = PAL_CLOCK_FREQUENCY
    /\ durationOfOneCycle = Duration(PAL_CLOCK_FREQUENCY)
    /\ warpMode = FALSE
    /\ ultimax = FALSE
    /\ buffer = NoSnapshot
    /\ lastCore = NoCore
    /\ anyFile = NoFile
    /\ freshFile = NoFile
    /\ callerBuf = <<>>

\* the items are those of st now
ItemsAre(st) ==
    /\ frequency' = st.frequency
    /\ durationOfOneCycle' = st.durationOfOneCycle
    /\ frame' = st.frame
    /\ rasterLine' = st.rasterLine
    /\ rasterCycle' = st.rasterCycle
    /\ warpMode' = st.warpMode
    /\ ultimax' = st.ultimax

\* the caller's buffer holds what the writer w has written
Saved(w) ==
    /\ buffer' = [bytes |-> w.buf, written |-> w.count, from |-> ItemsNow]
    /\ lastCore' = [op |-> "save", arg |-> <<size(ItemsNow)>>, ret |-> w.count, pre |-> ItemsNow]

\* _save(buffer)
DoSave ==
    /\ Saved(save(ItemsNow))
    /\ UNCHANGED <<config, frequency, durationOfOneCycle, warpMode, ultimax>>
    /\ UNCHANGED snapVars
    /\ UNCHANGED clockVars
    /\ UNCHANGED <<emuState, ready, suspendCounter, call, lastCall, nest>>
    /\ UNCHANGED threadVars
    /\ UNCHANGED fsVars
    /\ UNCHANGED flashVars
    /\ UNCHANGED fileVars

\* the items are what the reader w has read
Loaded(w) ==
    /\ ItemsAre(w.st)
    /\ lastCore' = [op |-> "load", arg |-> <<size(w.st)>>, ret |-> w.count, pre |-> ItemsNow]

\* _load(buffer), from a buffer that was saved to
DoLoad ==
    /\ buffer # NoSnapshot
    /\ Loaded(load(ItemsNow, buffer.bytes))
    /\ UNCHANGED <<config, buffer, clock>>
    /\ UNCHANGED snapVars
    /\ UNCHANGED <<emuState, ready, suspendCounter, call, lastCall, nest>>
    /\ UNCHANGED <<runLoopCtrl, stopFlag, p, threadLock, pc, boundary, lastBoundary, wanted,
                   lastExit>>
    /\ UNCHANGED fsVars
    /\ UNCHANGED flashVars
    /\ UNCHANGED fileVars

\* the items are st after the reset
WasReset(st) ==
    /\ ItemsAre(st)
    /\ lastCore' = [op |-> "reset", arg |-> <<>>, ret |-> 0,
                    pre |-> [items |-> ItemsNow, config |-> config]]

\* _reset()
DoReset ==
    /\ WasReset(reset(ItemsNow))
    /\ UNCHANGED <<config, buffer, clock>>
    /\ UNCHANGED snapVars
    /\ UNCHANGED <<emuState, ready, suspendCounter, call, lastCall, nest>>
    /\ UNCHANGED <<runLoopCtrl, stopFlag, p, threadLock, pc, boundary, lastBoundary, wanted,
                   lastExit>>
    /\ UNCHANGED fsVars
    /\ UNCHANGED flashVars
    /\ UNCHANGED fileVars

\* setUltimax(b) { ultimax = b; }
DoSetUltimax ==
    /\ \E b \in BOOLEAN :
          /\ ultimax' = b
          /\ lastCore' = [op |-> "setUltimax", arg |-> <<b>>, ret |-> 0, pre |-> ItemsNow]
    /\ UNCHANGED <<config, frequency, durationOfOneCycle, warpMode, buffer>>
    /\ UNCHANGED snapVars
    /\ UNCHANGED clockVars
    /\ UNCHANGED <<emuState, ready, suspendCounter, call, lastCall, nest>>
    /\ UNCHANGED threadVars
    /\ UNCHANGED fsVars
    /\ UNCHANGED flashVars
    /\ UNCHANGED fileVars

\* setWarp(enable)
DoSetWarp ==
    /\ \E enable \in BOOLEAN :
          /\ warpMode' = enable
          /\ lastCore' = [op |-> "setWarp", arg |-> <<enable>>, ret |-> 0, pre |-> ItemsNow]
    /\ UNCHANGED <<config, frequency, durationOfOneCycle, ultimax, buffer>>
    /\ UNCHANGED snapVars
    /\ UNCHANGED clockVars
    /\ UNCHANGED <<emuState, ready, suspendCounter, call, lastCall, nest>>
    /\ UNCHANGED threadVars
    /\ UNCHANGED fsVars
    /\ UNCHANGED flashVars
    /\ UNCHANGED fileVars

\* _setClockFrequency(value): the frequency and the duration of a cycle
DoSetClockFrequency ==
    /\ \E value \in {PAL_CLOCK_FREQUENCY, NTSC_CLOCK_FREQUENCY} :
          /\ frequency' = value
          /\ durationOfOneCycle' = Duration(value)
          /\ lastCore' = [op |-> "setClockFrequency", arg |-> <<value>>, ret |-> 0,
                          pre |-> ItemsNow]
    /\ UNCHANGED <<config, warpMode, ultimax, buffer>>
    /\ UNCHANGED snapVars
    /\ UNCHANGED clockVars
    /\ UNCHANGED <<emuState, ready, suspendCounter, call, lastCall, nest>>
    /\ UNCHANGED threadVars
    /\ UNCHANGED fsVars
    /\ UNCHANGED flashVars
    /\ UNCHANGED fileVars

ItemsNext ==
    \/ DoSave
    \/ DoLoad
    \/ DoReset
    \/ DoSetUltimax
    \/ DoSetWarp
    \/ DoSetClockFrequency

SpecItems == ItemsInit /\ [][ItemsNext]_vars

-----------------------------------------------------------------------------
(* AnyFile: writeToBuffer and readFromBuffer. A stream is the sequence of   *)
(* the bytes written to it.                                                 *)

\* the longest file
MaxFileLen == 2

FileBytes == {0, 65, 255}

\* AnyFile(capacity) with the data filled in
File(data) == [data |-> data, size |-> Len(data), null |-> FALSE]

\* the files: every sequence of at most MaxFileLen of the bytes
SampleFiles == {File(d) : d \in UNION {[1..n -> FileBytes] : n \in 0..MaxFileLen}}

\* what the caller's buffer holds before the call: its bytes are zero, the
\* fill pattern of fresh memory, or the letter A
SampleBufs == {[i \in 1..MaxFileLen |-> b] : b \in {0, 205, 65}}

\* writeToStream(stream): stream.write(data, size); return size
writeToStream(f, stream) == [stream |-> stream \o SubSeq(f.data, 1, f.size), ret |-> f.size]

\* the end of writeToBuffer: stream.write((char *)buf, len); return len. The
\* len bytes of buf go into the stream, and buf is left as it was
WriteToBufferEnd(w, b) == [buf |-> b, ret |-> w.ret, stream |-> w.stream \o SubSeq(b, 1, w.ret)]

\* writeToBuffer(buf)
writeToBuffer(f, b) == WriteToBufferEnd(writeToStream(f, <<>>), b)

\* alloc(capacity), on an object whose data is nullptr
alloc(f, capacity) == [data |-> [i \in 1..capacity |-> 0], size |-> capacity, null |-> FALSE]

\* the end of readFromStream: stream.read(data, size); repair(); return size
ReadInto(f, stream) == [data |-> SubSeq(stream, 1, f.size), size |-> f.size, null |-> FALSE]

\* readFromStream(stream)
readFromStream(f, stream) == ReadInto(alloc(f, Len(stream)), stream)

\* readFromBuffer(buf, len)
readFromBuffer(f, b, len) == readFromStream(f, SubSeq(b, 1, len))

\* a file object, a second one that is new, and the caller's buffer
FileInit ==
    /\ blocks = [b \in 0..(NumBlocks - 1) |-> EmptyData]
    /\ lastOp = [op |-> "makeWithFormat", ref |-> <<>>, arg |-> <<>>, ret |-> TRUE, err |-> "FS_OK",
                 out |-> <<>>, pre |-> <<>>]
    /\ dst = NoBuffer
    /\ imported = NoBuffer
    /\ trail = <<>>
    /\ ops = 0
    /\ corrupted = EmptyData
    /\ state = "FLASH_READ"
    /\ baseState = "FLASH_READ"
    /\ rom = <<>>
    /\ lastPoke = <<>>
    /\ preRom = <<>>
    /\ pokes = 0
    /\ emuState = EMULATOR_STATE_OFF
    /\ ready = FALSE
    /\ suspendCounter = 0
    /\ runLoopCtrl = {}
    /\ stopFlag = FALSE
    /\ p = FALSE
    /\ threadLock = "free"
    /\ call = NoCall
    /\ rasterLine = 0
    /\ rasterCycle = 1
    /\ pc = "none"
    /\ lastCall = NoLastCall
    /\ nest = NoNest
    /\ boundary = NoBoundary
    /\ lastBoundary = NoBoundary
    /\ wanted = {}
    /\ lastExit = NoExit
    /\ clock = NotFollowed
    /\ frame = NotFollowed
    /\ lastAuto = 0
    /\ autoSnapshotInterval = DefaultInterval
    /\ takeAutoSnapshots = TRUE
    /\ autoSnapshots = <<>>
    /\ userSnapshots = <<>>
    /\ snapCalls = NoSnapCalls
    /\ config = DefaultConfig
    /\ frequency = PAL_CLOCK_FREQUENCY
    /\ durationOfOneCycle = Duration(PAL_CLOCK_FREQUENCY)
    /\ warpMode = FALSE
    /\ ultimax = FALSE
    /\ buffer = <<>>
    /\ lastCore = NoCore
    /\ anyFile \in SampleFiles
    /\ freshFile = NoFile
    /\ callerBuf \in SampleBufs

\* the host calls writeToBuffer(buf) on the file
DoWriteToBuffer ==
    /\ lastCore.op = "none"
    /\ callerBuf' = writeToBuffer(anyFile, callerBuf).buf
    /\ lastCore' = [op |-> "writeToBuffer", arg |-> callerBuf,
                    ret |-> writeToBuffer(anyFile, callerBuf).ret, pre |-> lastCore.op]
    /\ UNCHANGED <<anyFile, freshFile>>
    /\ UNCHANGED <<config, frequency, durationOfOneCycle, warpMode, ultimax, buffer>>
    /\ UNCHANGED fsVars
    /\ UNCHANGED flashVars
    /\ UNCHANGED emuVars
    /\ UNCHANGED clockVars
    /\ UNCHANGED snapVars

\* the host calls readFromBuffer(buf, size) on the new file object, with the
\* size of the first file
DoReadFromBuffer ==
    /\ freshFile.null
    /\ freshFile' = readFromBuffer(freshFile, callerBuf, anyFile.size)
    /\ lastCore' = [op |-> "readFromBuffer", arg |-> anyFile.size,
                    ret |-> readFromBuffer(freshFile, callerBuf, anyFile.size).size,
                    pre |-> lastCore.op]
    /\ UNCHANGED <<anyFile, callerBuf>>
    /\ UNCHANGED <<config, frequency, durationOfOneCycle, warpMode, ultimax, buffer>>
    /\ UNCHANGED fsVars
    /\ UNCHANGED flashVars
    /\ UNCHANGED emuVars
    /\ UNCHANGED clockVars
    /\ UNCHANGED snapVars

FileNext ==
    \/ DoWriteToBuffer
    \/ DoReadFromBuffer

SpecFile == FileInit /\ [][FileNext]_vars

-----------------------------------------------------------------------------
(* The run loop of a running emulator, with every signal: the state after   *)
(* the Roms were installed and run() was called on the new C64              *)

RunLoopInit ==
    /\ emuState = EMULATOR_STATE_RUNNING
    /\ ready = TRUE
    /\ suspendCounter = 0
    /\ runLoopCtrl = {}
    /\ stopFlag = FALSE
    /\ p = TRUE
    /\ threadLock = "emu"
    /\ call = NoCall
    /\ rasterLine = 0
    /\ rasterCycle = 1
    /\ pc = "cycle"
    /\ lastCall = [op |-> "run", from |-> EMULATOR_STATE_OFF, ready |-> TRUE,
                   to |-> EMULATOR_STATE_RUNNING,
                   log |-> run(Component(EMULATOR_STATE_OFF, <<>>)).log]
    /\ nest = NoNest
    /\ boundary = NoBoundary
    /\ lastBoundary = NoBoundary
    /\ wanted = {}
    /\ lastExit = NoExit
    /\ blocks = <<>>
    /\ lastOp = <<>>
    /\ dst = NoBuffer
    /\ imported = NoBuffer
    /\ trail = <<>>
    /\ ops = 0
    /\ corrupted = EmptyData
    /\ state = "FLASH_READ"
    /\ baseState = "FLASH_READ"
    /\ rom = <<>>
    /\ lastPoke = <<>>
    /\ preRom = <<>>
    /\ pokes = 0
    /\ clock = NotFollowed
    /\ frame = NotFollowed
    /\ lastAuto = 0
    /\ autoSnapshotInterval = DefaultInterval
    /\ takeAutoSnapshots = TRUE
    /\ autoSnapshots = <<>>
    /\ userSnapshots = <<>>
    /\ snapCalls = NoSnapCalls
    /\ config = DefaultConfig
    /\ frequency = PAL_CLOCK_FREQUENCY
    /\ durationOfOneCycle = Duration(PAL_CLOCK_FREQUENCY)
    /\ warpMode = FALSE
    /\ ultimax = FALSE
    /\ buffer = <<>>
    /\ lastCore = NoCore
    /\ anyFile = NoFile
    /\ freshFile = NoFile
    /\ callerBuf = <<>>

LoopCycle == ExecuteOneCycle(CpuEvents)

RunLoopNext ==
    \/ LoopCycle
    \/ EndFrame
    \/ ServiceFlags
    \/ ThreadDidTerminate
    \/ RequestStop
    \/ SignalHost

SpecRunLoop == RunLoopInit /\ [][RunLoopNext]_vars

-----------------------------------------------------------------------------
(* Properties of the state model, checked under SpecEmu *)

\* the calls of the state model
StateCalls == {"powerOn", "powerOff", "run", "pause"}

\* the transition table: the state a call leaves behind
Table(op, from) ==
    IF op = "powerOn"
    THEN IF from = EMULATOR_STATE_OFF THEN EMULATOR_STATE_PAUSED ELSE from
    ELSE IF op = "powerOff" THEN EMULATOR_STATE_OFF
    ELSE IF op = "run" THEN EMULATOR_STATE_RUNNING
    ELSE IF from = EMULATOR_STATE_RUNNING THEN EMULATOR_STATE_PAUSED ELSE from

\* the state is one of the three, and powered on means paused or running
ThreeStates ==
    /\ emuState \in {EMULATOR_STATE_OFF, EMULATOR_STATE_PAUSED, EMULATOR_STATE_RUNNING}
    /\ isPoweredOn(emuState) <=> (isPaused(emuState) \/ isRunning(emuState))

C12_WitnessNotReady ==
    /\ lastCall.op = "powerOn"
    /\ lastCall.from = EMULATOR_STATE_OFF
    /\ ~lastCall.ready
    /\ isPoweredOff(emuState)

\* the call was made in a state in which the table has no action for it
NoAction(c) ==
    \/ c.op = "powerOn" /\ c.from # EMULATOR_STATE_OFF
    \/ c.op = "powerOff" /\ c.from = EMULATOR_STATE_OFF
    \/ c.op = "run" /\ c.from = EMULATOR_STATE_RUNNING
    \/ c.op = "pause" /\ c.from # EMULATOR_STATE_RUNNING

C13_WitnessPowerOff ==
    /\ lastCall.op = "powerOff"
    /\ lastCall.from = EMULATOR_STATE_RUNNING
    /\ Len(lastCall.log) = 2
    /\ isPoweredOff(emuState)

C15_WitnessPaused ==
    /\ call = NoCall
    /\ nest.ended
    /\ nest.pure
    /\ nest.before = EMULATOR_STATE_PAUSED
    /\ isPaused(emuState)

-----------------------------------------------------------------------------
(* Properties of the run loop, checked under SpecRunLoop and SpecEmuFair *)

\* the elements of a sequence
Range(q) == {q[i] : i \in 1..Len(q)}

\* the position of a flag in Priority
Rank(f) == CHOOSE j \in 1..Len(Priority) : Priority[j] = f

\* the flags of q are in the order of Priority
InPriorityOrder(q) == \A i \in 1..(Len(q) - 1) : Rank(q[i]) < Rank(q[i + 1])

\* C17: when the run loop has examined runLoopCtrl at the end of a frame,
\* every flag that was set when the frame ended has been serviced in that
\* examination, and the flags were serviced in the order STOP, CPU_JAMMED,
\* BREAKPOINT_REACHED, WATCHPOINT_REACHED, INSPECT, AUTO_SNAPSHOT,
\* USER_SNAPSHOT.
C17_AllServiced ==
    lastBoundary.atEnd =>
        /\ lastBoundary.found \subseteq Range(lastBoundary.serviced)
        /\ InPriorityOrder(lastBoundary.serviced)

\* C17 witness: a frame ended with RL_STOP and RL_INSPECT set; the run loop
\* was left for RL_STOP and RL_INSPECT is still set
C17_Witness ==
    /\ lastBoundary.atEnd
    /\ lastBoundary.found = {RL_STOP, RL_INSPECT}
    /\ lastBoundary.serviced = <<RL_STOP>>
    /\ RL_INSPECT \in runLoopCtrl
    /\ pc = "none"
    /\ isPaused(emuState)

C19_RequestStop ==
    /\ [][(stopFlag /\ ~stopFlag') => (pc = "endFrame" /\ RL_STOP \in runLoopCtrl')]_vars
    /\ [][(stopFlag /\ pc = "endFrame" /\ pc' # pc) => RL_STOP \in runLoopCtrl']_vars
    /\ [](RL_STOP \in runLoopCtrl => (pc = "service" /\ boundary.atEnd /\ boundary.next = 1))
    /\ [][(RL_STOP \in runLoopCtrl /\ pc' # pc) => pc' = "exit"]_vars
    /\ (isRunning(emuState) /\ stopFlag) ~> ~isRunning(emuState)

\* C19 witness: a stop was requested of an emulator that run() had started,
\* and the run loop was left for RL_STOP at the end of a frame
C19_Witness ==
    /\ lastCall.op = "run"
    /\ call = NoCall
    /\ isPaused(emuState)
    /\ lastExit.cause = RL_STOP
    /\ ~stopFlag
    /\ runLoopCtrl = {}

\* the place of the last exit is a frame boundary: the last cycle of the last
\* rasterline was executed
ExitAtFrameBoundary == lastExit.line = 0 /\ lastExit.cycle = 1

C20_WitnessJammed ==
    /\ lastExit.cause = RL_CPU_JAMMED
    /\ lastExit.line = 1
    /\ lastExit.cycle = 2
    /\ pc = "none"

-----------------------------------------------------------------------------
(* Properties of makeFile, checked under SpecDir, and of allocate and       *)
(* makeWithFormat, checked under SpecFS                                     *)

\* the blocks off the directory track whose BAM bit says free
FreeRefs(blk) ==
    {ref \in (1..NumTracks) \X (0..20) :
        IsValidRef(ref) /\ ref[1] # DirTrack /\ IsFree(blk, ref)}

\* the bytes of entry k of a directory block, without the sector's link
EntryBytes(d, k) == [o \in 2..(EntrySize - 1) |-> Get(d, EntrySize * k + o)]

\* the name of entry k, without the padding
EntryName(d, k) ==
    LET n == Cardinality({o \in 5..(4 + NameLen) : Get(d, EntrySize * k + o) # NamePad})
    IN  [i \in 1..n |-> Get(d, EntrySize * k + 4 + i)]

\* the entry at slot is a PRG file with this name, first block and block count
IsFileEntry(d, k, name, ref, numBlocks) ==
    /\ Get(d, EntrySize * k + 2) = FileTypePRG
    /\ Get(d, EntrySize * k + 3) = ref[1]
    /\ Get(d, EntrySize * k + 4) = ref[2]
    /\ \A i \in 1..NameLen :
          Get(d, EntrySize * k + 4 + i) = IF i <= Len(name) THEN name[i] ELSE NamePad
    /\ Get(d, EntrySize * k + 30) + 256 * Get(d, EntrySize * k + 31) = numBlocks

\* the volume after exportVolume into a buffer of the volume's size and
\* importVolume of that buffer
ThroughImage(blk) ==
    ImportVolume(blk, ExportVolume(blk, SampleBuffer(VolumeSize)).dst).blocks

\* makeFile was called on a volume with a free directory slot and at least
\* as many free blocks as the file needs
MakeFileCase ==
    /\ lastOp.op = "makeFile"
    /\ FindFreeSlot(lastOp.pre, BlockPtr(DirTrack, 1), 0) # NoSlot
    /\ Cardinality(FreeRefs(lastOp.pre)) >= CeilBlocks(lastOp.arg.cnt)

\* C24: makeFile(name, data, len) on a volume with a free directory slot and
\* enough free blocks returns true, allocates exactly ceil(len/254) blocks
\* (that many blocks fewer are free afterwards) and fills exactly one
\* directory entry, the first free one, with file type PRG, the track/sector
\* of the first allocated block, the name padded with 0xA0 and the block count
\* ceil(len/254); scanDirectory() afterwards returns exactly one more entry
\* than before, also after exportVolume followed by importVolume.
C24_MakeFile ==
    MakeFileCase =>
        /\ lastOp.ret
        /\ Len(lastOp.out.list) = CeilBlocks(lastOp.arg.cnt)
        /\ Cardinality(FreeRefs(lastOp.pre)) - Cardinality(FreeRefs(blocks))
              = CeilBlocks(lastOp.arg.cnt)
        /\ lastOp.out.slot = FindFreeSlot(lastOp.pre, BlockPtr(DirTrack, 1), 0)
        /\ IsFileEntry(blocks[lastOp.out.slot[1]], lastOp.out.slot[2], lastOp.arg.name,
                       lastOp.out.list[1], CeilBlocks(lastOp.arg.cnt))
        /\ \A k \in 0..(EntriesPerBlock - 1) :
              k # lastOp.out.slot[2] =>
                 EntryBytes(blocks[lastOp.out.slot[1]], k)
                    = EntryBytes(lastOp.pre[lastOp.out.slot[1]], k)
        /\ Len(ScanDirectory(blocks, FALSE)) = Len(ScanDirectory(lastOp.pre, FALSE)) + 1
        /\ Len(ScanDirectory(ThroughImage(blocks), FALSE))
              = Len(ScanDirectory(lastOp.pre, FALSE)) + 1

\* C24 witness: a file of 1000 bytes named HELLO was written to an empty
\* formatted disk; scanDirectory returns one entry, named HELLO, with block
\* count 4, also after export and import
C24_Witness ==
    /\ MakeFileCase
    /\ trail = << <<"importVolume", <<>>>>, <<"makeFile", <<>>>> >>
    /\ lastOp.arg.cnt = 1000
    /\ Len(lastOp.out.list) = 4
    /\ ScanDirectory(lastOp.pre, FALSE) = <<>>
    /\ ScanDirectory(ThroughImage(blocks), FALSE) = << <<BlockPtr(DirTrack, 1), 0>> >>
    /\ EntryName(ThroughImage(blocks)[BlockPtr(DirTrack, 1)], 0) = <<72, 69, 76, 76, 79>>
    /\ Get(ThroughImage(blocks)[BlockPtr(DirTrack, 1)], 30) = 4

\* at most n blocks of the next-block order that starts at ref, and the
\* block the order goes on with
RECURSIVE OrderOn(_, _)
RECURSIVE Order(_, _)
Order(ref, n) ==
    IF ref[1] = 0 \/ n = 0 THEN [seq |-> <<>>, next |-> ref]
    ELSE IF n = 1 THEN [seq |-> <<ref>>, next |-> NextBlockRef(ref)]
    ELSE OrderOn(Order(ref, n \div 2), n - (n \div 2))

OrderRest(a, b) == [seq |-> a.seq \o b.seq, next |-> b.next]

OrderOn(a, n) == OrderRest(a, Order(a.next, n))

\* the number of free blocks in the next-block order from ref
FreeInOrder(blk, ref) ==
    IF ~IsValidRef(ref) THEN 0
    ELSE Cardinality({i \in 1..Len(Order(ref, NumBlocks).seq) :
                         IsFree(blk, Order(ref, NumBlocks).seq[i])})

\* C25: allocate(start, n) returns the empty list whenever fewer than n free
\* blocks remain in the next-block order from start, also when the order
\* ends during the walk, and makeFile then returns false and creates no file
\* (no block of the volume changes).
C25_AllocateExhausted ==
    /\ (lastOp.op = "allocate" /\ FreeInOrder(lastOp.pre, lastOp.arg[1]) < lastOp.arg[2]) =>
          lastOp.out = <<>>
    /\ (lastOp.op = "makeFile" /\ lastOp.out.slot # NoSlot
           /\ FreeInOrder(lastOp.pre, <<1, 0>>) < CeilBlocks(lastOp.arg.cnt)) =>
          ~lastOp.ret /\ blocks = lastOp.pre

\* C25 witness: allocate was asked for two blocks from the last free block
\* of the next-block order of a formatted volume
C25_Witness ==
    /\ lastOp.op = "allocate"
    /\ Called("writeBAM")
    /\ lastOp.arg[2] = 2
    /\ FreeInOrder(lastOp.pre, lastOp.arg[1]) = 1

\* C26: immediately after makeWithFormat the volume has 683 blocks, every
\* valid track/sector pair is free in the BAM at (18,0), the BAM block links
\* to (18,1) as the first directory sector, and scanDirectory() returns no
\* entries.
C26_Format ==
    lastOp.op = "makeWithFormat" =>
        /\ DOMAIN blocks = 0..682
        /\ \A t \in 1..NumTracks : \A sec \in 0..(NumSectors(t) - 1) : IsFree(blocks, <<t, sec>>)
        /\ NextBlockPtr(blocks, BamNr) = BlockPtr(DirTrack, 1)
        /\ ScanDirectory(blocks, FALSE) = <<>>

\* C26 witness: the volume is in that state once writeBAM has been called on
\* the new device
C26_Witness ==
    /\ lastOp.op = "writeBAM"
    /\ DOMAIN blocks = 0..682
    /\ \A t \in 1..NumTracks : \A sec \in 0..(NumSectors(t) - 1) : IsFree(blocks, <<t, sec>>)
    /\ NextBlockPtr(blocks, BamNr) = BlockPtr(DirTrack, 1)
    /\ ScanDirectory(blocks, FALSE) = <<>>

-----------------------------------------------------------------------------
(* Properties of scanDirectory, checked under SpecDir *)

\* the sectors of the directory chain, as many as 144 entries take
DirChain(blk) == ReadChain(blk, BlockPtr(DirTrack, 1), MaxFiles \div EntriesPerBlock)

\* entry number i of the directory lies in a sector of the chain
HasEntry(chain, i) == i < MaxFiles /\ (i \div EntriesPerBlock) < Len(chain)

\* the slot of entry number i
SlotOf(chain, i) == <<chain[(i \div EntriesPerBlock) + 1], i % EntriesPerBlock>>

EmptyAt(blk, chain, i) == EntryIsEmpty(blk[SlotOf(chain, i)[1]], SlotOf(chain, i)[2])

\* the number of entries before the first one that is empty, that lies
\* behind the end of the chain or that has the number 144
FirstGap(blk, chain) ==
    CHOOSE m \in 0..MaxFiles :
        /\ ~HasEntry(chain, m) \/ EmptyAt(blk, chain, m)
        /\ \A i \in 0..(m - 1) : HasEntry(chain, i) /\ ~EmptyAt(blk, chain, i)

\* the number of entries before the first sector whose first entry is empty
\* or that lies behind the end of the chain or behind entry 143
FirstEmptySector(blk, chain) ==
    CHOOSE m \in 0..MaxFiles :
        /\ ~HasEntry(chain, m) \/ (m % EntriesPerBlock = 0 /\ EmptyAt(blk, chain, m))
        /\ \A i \in 0..(m - 1) :
              HasEntry(chain, i) /\ ~(i % EntriesPerBlock = 0 /\ EmptyAt(blk, chain, i))

\* the entries that are in use among the first m of the directory, in chain
\* order, without the hidden ones when skipInvisible is set
Listed(blk, chain, m, skipInvisible) ==
    SelectSeq([i \in 1..m |-> SlotOf(chain, i - 1)],
              LAMBDA e : /\ ~EntryIsEmpty(blk[e[1]], e[2])
                         /\ ~(skipInvisible /\ EntryIsHidden(blk[e[1]], e[2])))

\* C27 as stated: scanDirectory(skipInvisible) walks the chain from (18,1),
\* eight entries per sector, ends the walk exactly when the first entry of a
\* sector is empty or after 144 entries, and returns the visited non-empty
\* entries in chain order (without hidden ones when skipInvisible is set),
\* never more than 144.
C27_ScanToEmptySector ==
    lastOp.op = "scanDirectory" =>
        /\ lastOp.out = Listed(blocks, DirChain(blocks),
                               FirstEmptySector(blocks, DirChain(blocks)), lastOp.arg)
        /\ Len(lastOp.out) <= MaxFiles

\* C27 amended: the walk ends at the first empty entry, whatever its place
\* in its sector, when the link of a sector that was walked through names no
\* block of the volume, or after 144 entries; scanDirectory returns the
\* entries before that point in chain order (without hidden ones when
\* skipInvisible is set), never more than 144, also when the links form a
\* cycle.
C27_Scan ==
    lastOp.op = "scanDirectory" =>
        /\ lastOp.out = Listed(blocks, DirChain(blocks),
                               FirstGap(blocks, DirChain(blocks)), lastOp.arg)
        /\ Len(lastOp.out) <= MaxFiles

\* C27 witness: the directory has three files, an empty entry and a file
\* behind it; the scan has returned the three files
C27_Witness ==
    /\ lastOp.op = "scanDirectory"
    /\ Len(lastOp.out) = 3
    /\ EntryIsEmpty(blocks[BlockPtr(DirTrack, 1)], 3)
    /\ ~EntryIsEmpty(blocks[BlockPtr(DirTrack, 1)], 4)

\* C27 witness: the only directory sector is full and links to itself; the
\* scan has ended after 144 entries
C27_WitnessCycle ==
    /\ lastOp.op = "scanDirectory"
    /\ NextBlockPtr(blocks, BlockPtr(DirTrack, 1)) = BlockPtr(DirTrack, 1)
    /\ Len(lastOp.out) = MaxFiles

\* C27 witness: a hidden file was left out
C27_WitnessHidden ==
    /\ lastOp.op = "scanDirectory"
    /\ lastOp.arg
    /\ lastOp.out = << <<BlockPtr(DirTrack, 1), 0>>, <<BlockPtr(DirTrack, 1), 2>> >>
    /\ ~EntryIsEmpty(blocks[BlockPtr(DirTrack, 1)], 1)

-----------------------------------------------------------------------------
(* C64: the master clock *)

\* the cycles of a frame: lines per frame times cycles per line
CyclesPerFrame == LinesPerFrame * CyclesPerLine

\* the run loop is at a frame boundary: endFrame() has run and the flags it
\* left are under examination
AtFrameBoundary == clock # NotFollowed /\ frame # NotFollowed /\ boundary.atEnd

-----------------------------------------------------------------------------
(* C64: the snapshot storages *)

\* the stamps of the storage fall from position to position: newest first
NewestFirst(storage) == \A i \in 1..(Len(storage) - 1) : storage[i] > storage[i + 1]

\* the storage holds the snapshot s at position 0 and behind it the
\* snapshots of pre, all but the last one when pre was full
TakenInto(storage, pre, s) ==
    /\ Len(storage) > 0
    /\ storage[1] = s
    /\ Tail(storage) = IF Len(pre) >= MAX_SNAPSHOTS THEN SubSeq(pre, 1, MAX_SNAPSHOTS - 1) ELSE pre

\* C22: after any sequence of takeSnapshot and deleteSnapshot calls each
\* storage holds at most 32 snapshots, listed from newest to oldest;
\* takeSnapshot places the new snapshot at position 0 and moves the others
\* one position up, and deletes the last one of a storage that was full.
C22_Storage ==
    /\ Len(autoSnapshots) <= MAX_SNAPSHOTS
    /\ Len(userSnapshots) <= MAX_SNAPSHOTS
    /\ NewestFirst(autoSnapshots)
    /\ NewestFirst(userSnapshots)
    /\ lastCore.op = "takeSnapshot" =>
           TakenInto(StorageOf(lastCore.arg[1]), lastCore.pre, lastCore.arg[2])

\* C22 witness: the 34th snapshot was taken into the full auto storage, which
\* now holds the stamps 33 down to 2
C22_Witness ==
    /\ lastCore.op = "takeSnapshot"
    /\ lastCore.arg = <<"auto", 33>>
    /\ Len(lastCore.pre) = MAX_SNAPSHOTS
    /\ Len(autoSnapshots) = MAX_SNAPSHOTS
    /\ autoSnapshots[1] = 33
    /\ autoSnapshots[MAX_SNAPSHOTS] = 2

-----------------------------------------------------------------------------
(* C64: suspended auto-snapshots *)

\* a suspendAutoSnapshots() is unmatched
AutoSuspended == lastCore.pre.depth > 0

\* the last resumeAutoSnapshots() has matched the first suspendAutoSnapshots()
AutoResumed == lastCore.op = "resumeAutoSnapshots" /\ lastCore.pre.depth = 0

\* C23: between suspendAutoSnapshots() and the matching resumeAutoSnapshots()
\* the run loop schedules no auto-snapshot, whatever the frame count, and
\* after resumeAutoSnapshots() getSnapshotInterval() returns the value it had
\* before suspendAutoSnapshots().
C23_Suspended ==
    /\ AutoSuspended => lastAuto <= lastCore.pre.since
    /\ AutoResumed => autoSnapshotInterval = lastCore.pre.before

\* C23 witness: auto-snapshots were suspended at frame 0 with the interval of
\* 3 seconds and resumed after 4 frames: none was scheduled or taken, and the
\* interval is 3 again
C23_Witness ==
    /\ AutoResumed
    /\ lastCore.pre.before = DefaultInterval
    /\ lastCore.pre.since = 0
    /\ frame = MaxFrames
    /\ lastAuto = 0
    /\ autoSnapshots = <<>>
    /\ autoSnapshotInterval = DefaultInterval

-----------------------------------------------------------------------------
(* C64: configure *)

\* the last call was configure(option, value)
Configure(option, value) == lastCore.op = "configure" /\ lastCore.arg = <<option, value>>

\* the option is not recognized, or the value is none of the option's
InvalidRequest(option, value) == option \notin Options \/ value \notin ValidValues[option]

C28_WitnessInvalid ==
    /\ Configure("SID_FILTER", "PAL_6569")
    /\ lastCore.ret = FALSE
    /\ config = lastCore.pre.config

-----------------------------------------------------------------------------
(* C64: serialization and reset *)

SameItems(items, st, pre) == \A i \in 1..Len(items) : st[items[i]] = pre[items[i]]

-----------------------------------------------------------------------------
(* Properties of exportDirectory, checked under SpecDir *)

\* C31: exportDirectory(path, err) on a target directory that already holds
\* items returns false and reports FS_DIRECTORY_NOT_EMPTY, and it returns
\* true with FS_OK only after every scanned directory item has been exported.
C31_ExportDirectory ==
    (lastOp.op = "exportDirectory" /\ ~lastOp.out.aborted) =>
        /\ lastOp.arg.numItems # 0 =>
              (lastOp.ret = FALSE /\ lastOp.err = "FS_DIRECTORY_NOT_EMPTY")
        /\ (lastOp.ret = TRUE /\ lastOp.err = "FS_OK") =>
              lastOp.out.exported = Len(lastOp.out.items)

\* C31 witness: exportDirectory was called for a target directory that holds
\* items while the volume has files, and the call came back
C31_Witness ==
    /\ lastOp.op = "exportDirectory"
    /\ lastOp.arg.numItems # 0
    /\ ~lastOp.out.aborted
    /\ ScanDirectory(blocks, TRUE) # <<>>

-----------------------------------------------------------------------------
(* Properties of the links written by allocate, checked under SpecFS *)

\* the track and sector held in bytes 0 and 1 of the block ref names
LinkOf(blk, ref) ==
    <<Get(blk[BlockPtr(ref[1], ref[2])], 0), Get(blk[BlockPtr(ref[1], ref[2])], 1)>>

\* the blocks of list are linked in list order and the last one ends the chain
LinkedInOrder(blk, list) ==
    /\ \A i \in 1..(Len(list) - 1) : LinkOf(blk, list[i]) = list[i + 1]
    /\ LinkOf(blk, list[Len(list)]) = <<0, 0>>
    /\ ReadChain(blk, BlockPtr(list[1][1], list[1][2]), Len(list) + 1) =
          [i \in 1..Len(list) |-> BlockPtr(list[i][1], list[i][2])]

\* C32: after allocate returns the non-empty list b1..bn, bytes 0 and 1 of
\* each bi with i < n hold the track and sector of b(i+1), bytes 0 and 1 of
\* bn are (0,0), and following the links from b1 visits exactly b1..bn.
C32_Linked ==
    (lastOp.op = "allocate" /\ lastOp.out # <<>>) => LinkedInOrder(blocks, lastOp.out)

\* C32 witness: allocate handed out two different blocks, linked in order
C32_Witness ==
    /\ lastOp.op = "allocate"
    /\ Len(lastOp.out) = 2
    /\ lastOp.out[1] # lastOp.out[2]
    /\ LinkedInOrder(blocks, lastOp.out)

-----------------------------------------------------------------------------
(* Properties of makeFile on a full directory, checked under SpecDir *)

\* the blocks of track 18 are the same in both volumes
SameDirectory(b1, b2) ==
    \A s \in 0..(NumSectors(DirTrack) - 1) : b1[BlockPtr(DirTrack, s)] = b2[BlockPtr(DirTrack, s)]

\* no empty directory entry is reachable in the chain from (18,1)
NoFreeEntry(blk) == FindFreeSlot(blk, BlockPtr(DirTrack, 1), 0) = NoSlot

\* C33: makeFile(name, buf, cnt) returns true only if it wrote a directory
\* entry for the new file; when no empty entry is reachable from (18,1) it
\* returns false and changes neither the BAM nor any data block; when no
\* blocks could be allocated the directory is unchanged.
C33_MakeFileFullDirectory ==
    lastOp.op = "makeFile" =>
        /\ lastOp.ret =>
              /\ lastOp.out.slot # NoSlot
              /\ ~EntryIsEmpty(blocks[lastOp.out.slot[1]], lastOp.out.slot[2])
        /\ NoFreeEntry(lastOp.pre) => (~lastOp.ret /\ blocks = lastOp.pre)
        /\ (~lastOp.ret /\ ~NoFreeEntry(lastOp.pre)) => SameDirectory(blocks, lastOp.pre)

\* C33 witness: makeFile was called on a volume whose directory has no
\* reachable empty entry, and no block of the volume changed
C33_Witness ==
    /\ lastOp.op = "makeFile"
    /\ NoFreeEntry(lastOp.pre)
    /\ blocks = lastOp.pre

-----------------------------------------------------------------------------
(* Properties of the command addresses of the FlashRom, checked under       *)
(* SpecFlash                                                                *)

\* C34 as stated: command addresses are matched on the low 12 bits: in READ,
\* poke(addr,0xAA) moves the FlashRom to MAGIC_1 if and only if addr & 0xFFF
\* is 0x555, and in MAGIC_1, poke(addr,0x55) moves it to MAGIC_2 if and only
\* if addr & 0xFFF is 0x2AA.
C34_CommandAddrLow12 ==
    Len(lastPoke) > 0 =>
        /\ (LastPoke.from = "FLASH_READ" /\ LastPoke.val = 170) =>
              (state = "FLASH_MAGIC_1" <=> LastPoke.addr % 4096 = 1365)
        /\ (LastPoke.from = "FLASH_MAGIC_1" /\ LastPoke.val = 85) =>
              (state = "FLASH_MAGIC_2" <=> LastPoke.addr % 4096 = 682)

\* C34 amended: command addresses are matched on the low 11 bits: in READ,
\* poke(addr,0xAA) moves the FlashRom to MAGIC_1 if and only if addr & 0x7FF
\* is 0x555, and in MAGIC_1, poke(addr,0x55) moves it to MAGIC_2 if and only
\* if addr & 0x7FF is 0x2AA.
C34_CommandAddr ==
    Len(lastPoke) > 0 =>
        /\ (LastPoke.from = "FLASH_READ" /\ LastPoke.val = 170) =>
              (state = "FLASH_MAGIC_1" <=> LastPoke.addr % 2048 = 1365)
        /\ (LastPoke.from = "FLASH_MAGIC_1" /\ LastPoke.val = 85) =>
              (state = "FLASH_MAGIC_2" <=> LastPoke.addr % 2048 = 682)

\* C34 witness: 0xAA was written in READ to 0xD55, whose bit 11 is set, and
\* the FlashRom went to MAGIC_1
C34_Witness ==
    /\ Len(lastPoke) > 0
    /\ LastPoke.from = "FLASH_READ"
    /\ IsPoke(LastPoke, 3413, 170)
    /\ state = "FLASH_MAGIC_1"

\* C34, second witness: 0x55 was written in MAGIC_1 to 0x555 and the FlashRom
\* did not go to MAGIC_2
C34_WitnessSecond ==
    /\ Len(lastPoke) > 0
    /\ LastPoke.from = "FLASH_MAGIC_1"
    /\ IsPoke(LastPoke, 1365, 85)
    /\ state # "FLASH_MAGIC_2"

-----------------------------------------------------------------------------
(* Properties of the next-block order, checked under SpecOrder *)

\* the number of times the walk has visited block ref
Visits(ref) == Cardinality({i \in 1..Len(trail) : trail[i][2] = ref})

\* every sector of track t was visited exactly once
TrackDone(t) == \A s \in 0..(NumSectors(t) - 1) : Visits(<<t, s>>) = 1

\* the list names n blocks, all different and none on track 18
AllDataBlocks(list, n) ==
    /\ Len(list) = n
    /\ \A i \in 1..Len(list) : list[i][1] # DirTrack
    /\ Cardinality({list[i] : i \in 1..Len(list)}) = n

\* C35: the next-block order, from (t,s) to (t,(s+10) mod sectorsPerTrack(t))
\* and on to the next track when a track is exhausted, enumerates every block
\* outside track 18 exactly once before it reports exhaustion, in each of the
\* four zones, and on an empty disk allocate can hand out all 664 data blocks.
C35_Order ==
    /\ (lastOp.op = "nextBlockRef" /\ lastOp.out[1] # lastOp.ref[1]) =>
          TrackDone(lastOp.ref[1])
    /\ (lastOp.op = "nextBlockRef" /\ lastOp.out[1] = 0 /\ trail[1][2] = <<17, 0>>) =>
          AllDataBlocks([i \in 1..Len(trail) |-> trail[i][2]], DataBlocks)
    /\ (lastOp.op = "allocate" /\ lastOp.arg[1] = <<17, 0>>) =>
          AllDataBlocks(lastOp.out, DataBlocks)

\* C35 witness: the walk from (31,0) has reported exhaustion after the 85
\* blocks of the tracks 31 to 35, each visited once
C35_Witness ==
    /\ lastOp.op = "nextBlockRef"
    /\ lastOp.out[1] = 0
    /\ trail[1][2] = <<31, 0>>
    /\ Len(trail) = 85
    /\ \A t \in 31..35 : TrackDone(t)

-----------------------------------------------------------------------------
(* Properties of check and isCorrupted, checked under SpecCheck *)

\* the number of blocks of the set up to block b
OrdinalIn(set, b) == Cardinality({e \in set : e <= b})

\* the blocks whose corrupted field is not 0
Erroneous == {b \in 0..(NumBlocks - 1) : Get(corrupted, b) # 0}

\* C36: check(strict) sets a block's corrupted field to 0 when the block's own
\* check finds no error and otherwise to its 1-based ordinal among the
\* erroneous blocks in ascending order; corruptedBlocks is the number of
\* erroneous blocks, firstErrorBlock and lastErrorBlock are the smallest and
\* the largest of them when there is one; isCorrupted(b, n) is true exactly
\* when b is the n-th erroneous block.
C36_Check ==
    /\ lastOp.op = "check" =>
          /\ \A b \in 0..(NumBlocks - 1) :
                Get(corrupted, b) =
                    (IF b \in lastOp.arg.errs THEN OrdinalIn(lastOp.arg.errs, b) ELSE 0)
          /\ lastOp.out.corruptedBlocks = Cardinality(lastOp.arg.errs)
          /\ lastOp.arg.errs # {} =>
                /\ lastOp.out.firstErrorBlock \in lastOp.arg.errs
                /\ lastOp.out.lastErrorBlock \in lastOp.arg.errs
                /\ \A e \in lastOp.arg.errs :
                      lastOp.out.firstErrorBlock <= e /\ e <= lastOp.out.lastErrorBlock
    /\ lastOp.op = "isCorrupted" =>
          (lastOp.ret <=> /\ lastOp.arg.blockNr \in Erroneous
                          /\ OrdinalIn(Erroneous, lastOp.arg.blockNr) = lastOp.arg.n)

\* C36 witness: after a check that found three erroneous blocks, the BAM block
\* was found to be the second of them
C36_Witness ==
    /\ lastOp.op = "isCorrupted"
    /\ Cardinality(Erroneous) = 3
    /\ lastOp.arg = [blockNr |-> BamNr, n |-> 2]
    /\ lastOp.ret

\* C36, second witness: a check found errors in the first and in the last
\* block and none in the BAM block
C36_WitnessCheck ==
    /\ lastOp.op = "check"
    /\ lastOp.arg.errs = {0, NumBlocks - 1}
    /\ lastOp.out = [corruptedBlocks |-> 2, firstErrorBlock |-> 0,
                     lastErrorBlock |-> NumBlocks - 1]
    /\ Get(corrupted, BamNr) = 0
    /\ Get(corrupted, NumBlocks - 1) = 2

-----------------------------------------------------------------------------
(* Properties of AnyFile, checked under SpecFile *)

\* C37: writeToBuffer(buf) copies the file out: after the call the first
\* size bytes of buf equal the file's data and the returned length is size,
\* and readFromBuffer(buf, size) on a fresh file object then reproduces the
\* same data and size.
C37_WriteRead ==
    /\ lastCore.op = "writeToBuffer" =>
          /\ SubSeq(callerBuf, 1, anyFile.size) = anyFile.data
          /\ lastCore.ret = anyFile.size
    /\ (lastCore.op = "readFromBuffer" /\ lastCore.pre = "writeToBuffer") =>
          /\ freshFile.data = anyFile.data
          /\ freshFile.size = anyFile.size

\* C37 witness: a file of two bytes was written to the buffer and the buffer
\* was read into the new file object, which has the size of the file
C37_Witness ==
    /\ lastCore.op = "readFromBuffer"
    /\ lastCore.pre = "writeToBuffer"
    /\ anyFile.size = 2
    /\ ~freshFile.null
    /\ freshFile.size = anyFile.size

-----------------------------------------------------------------------------
(* Properties of isReady, checked under SpecEmu *)

====
